---- MODULE Spec2Model ----
(***************************************************************************)
(* Smart Maintenance SaaS: the streaming ingestion buffer                  *)
(* (src/integration/data_ingestion_service.py, class DataIngestionService) *)
(* and the ETL pipeline as state machines.                                 *)
(*                                                                         *)
(* Threads.  Every call of start() creates one MQTT network thread (the    *)
(* producer that runs on_mqtt_message / process_sensor_data), one          *)
(* processing thread (data_processing_loop, the batch writer) and one      *)
(* heartbeat thread (heartbeat_loop).  The i-th call of start() creates    *)
(* the threads with index i.  start() and stop() are run by one caller.    *)
(*                                                                         *)
(* Specifications.  Spec: the runs in which start() succeeds at most once  *)
(* (one producer, one batch writer, one heartbeat).  RestartSpec: start()  *)
(* may be called again, also without a stop() in between; nothing in       *)
(* start() prevents it, and the threads of the earlier start live on.      *)
(* DecodeSpec: messages of every kind arriving at a started service.       *)
(* DimSpec: insert_sensor_data run by two service instances on the same    *)
(* store.  EtlSpec / EtlRestartSpec: the ETL pipeline                      *)
(* (src/integration/etl_pipeline.py) started once / started again.         *)
(* GateSpec: ETL cycles over every kind of extraction window.              *)
(* LifecycleSpec: start() and stop() of both services.  TimedSpec: the     *)
(* loops and stop() of a service with the sleeps and join timeouts.        *)
(* MonitorSpec: the ETL pipeline with its scheduled jobs and health        *)
(* reports.  FaultSpec: ETL cycles in which a stage or the load of a view  *)
(* fails.  HistorySpec: a pipeline left running for HistoryCycles cycles.  *)
(* LoopsSpec: the host started in mode "ingestion" or "etl", with the      *)
(* failures its loops absorb.  TransformSpec: clean_and_transform_data on  *)
(* the columns of a frame, by its numbers.  AgainSpec: the same, with a    *)
(* second call on the result of the first.  AggregateSpec:                 *)
(* aggregate_data_for_reporting on the rows of a frame.  OrchSpec: the     *)
(* orchestrator (src/integration/run_integrated_system.py) starting the    *)
(* two services in a thread each and stopping them.                        *)
(***************************************************************************)
EXTENDS Naturals, Integers, Sequences, FiniteSets, TLC

\* ------------------------------------------------------------------ bounds
\* SYSTEM_CONFIG['buffer_size'] (1000 in the source), scaled down.
BufferSize == 2
\* SYSTEM_CONFIG['batch_insert_size'] (50 in the source), scaled down.
BatchSize == 2
\* Number of start() calls explored (each creates a new set of threads).
MaxStarts == 2
\* Number of readings the decoder constructs in one run.
MaxReadings == 3

\* SYSTEM_CONFIG['max_retries']
MaxRetries == 3
\* Number of equipment keys (id_maquina) the readings carry.
MaxKeys == 2

\* Largest number of rows of a frame given to the transform.
MaxRows == 5

\* Largest number of rows of a frame given to the aggregation.
MaxGroupRows == 3

\* Largest number of records in an extraction window.
MaxWindow == 5
\* Largest number of records (cells, for nulls) a quality check reports.
MaxAffected == 2
\* Number of ETL cycles explored.
MaxCycles == 4
\* Number of ETL cycles explored over every kind of window, and of the
\* runs in which start() is called again.
GateCycles == 2
\* Number of ETL cycles of the runs that look at the history of checks.
HistoryCycles == 6
\* Number of consecutive rejected cycles after which the pipeline is to be
\* reported as degraded.
RejectLimit == 3

Threads == 1..MaxStarts

\* The two services SmartMaintenanceOrchestrator runs in a thread each.
Components == {"data_ingestion", "etl_pipeline"}
\* The values of --mode that start one of them.
Modes == {"all", "ingestion", "etl"}
Ids == 1..MaxReadings
\* Database sessions that write readings (one per service instance).
Sessions == 1..MaxStarts
DimKeys == 1..MaxKeys

\* ---------------------------------------------------------------- payloads
\* A raw MQTT payload, by what process_sensor_data looks at: whether it is
\* JSON at all, and the three required fields.
Payloads ==
    [ json      : BOOLEAN,
      device_id : {"absent", "present"},
      timestamp : {"absent", "iso", "epoch", "bad"},
      sensors   : {"absent", "empty", "some"} ]

\* The payloads of the concurrent runs: the complete ones.
PayloadsRun ==
    { m \in Payloads : /\ m.json
                       /\ m.device_id = "present"
                       /\ m.timestamp = "iso"
                       /\ m.sensors = "some" }

\* required_fields check: all(field in data for field in required_fields).
HasRequiredFieldsNoSensors(m) ==
    /\ m.device_id # "absent"
    /\ m.timestamp # "absent"
HasRequiredFields(m) ==
    /\ m.device_id # "absent"
    /\ m.timestamp # "absent"
    /\ m.sensors # "absent"

\* A payload that lacks a device identifier, a timestamp or a sensor map.
LacksField(m) ==
    \/ m.device_id = "absent"
    \/ m.timestamp = "absent"
    \/ m.sensors = "absent"

\* The outcome of the parse / validate / convert part of process_sensor_data.
Decode(m) ==
    IF ~m.json THEN "json_error"
    ELSE IF ~HasRequiredFields(m) THEN "incomplete"
    ELSE IF m.timestamp = "bad" THEN "error"
    ELSE "reading"

\* SensorReading(...) built from the payload; id names the object.
SensorReading(n, m) == [id |-> n, sensors |-> m.sensors]

NoReading == [id |-> 0, sensors |-> "none"]

\* ----------------------------------------------------------------- timing
\* SYSTEM_CONFIG['processing_interval'], ['heartbeat_interval'] and the
\* error sleeps and join timeout of DataIngestionService, in seconds.
ProcessingInterval == 5
HeartbeatInterval == 30
WriterErrorSleep == 5
HeartbeatErrorSleep == 10
IngestionJoinTimeout == 10
\* PIPELINE_CONFIG['processing_interval'] and the sleeps and join timeout
\* of SmartMaintenanceETLPipeline, in seconds.
EtlProcessingInterval == 60
EtlErrorSleep == 60
MonitoringInterval == 60
MonitoringErrorSleep == 300
EtlJoinTimeout == 30
\* Step of the clock: every duration above is a multiple of it.
TickSeconds == ProcessingInterval

Services == {"ingestion", "etl"}
Loops == {"batch_writer", "heartbeat", "etl_processing", "monitoring"}

\* The thread stop() joins first and the one it joins second.
FirstJoined(svc) == IF svc = "ingestion" THEN "batch_writer" ELSE "etl_processing"
SecondJoined(svc) == IF svc = "ingestion" THEN "heartbeat" ELSE "monitoring"
LoopsOf(svc) == {FirstJoined(svc), SecondJoined(svc)}

\* The time.sleep at the end of an iteration, and the one in its except.
SleepSeconds(l) ==
    IF l = "batch_writer" THEN {ProcessingInterval, WriterErrorSleep}
    ELSE IF l = "heartbeat" THEN {HeartbeatInterval, HeartbeatErrorSleep}
    ELSE IF l = "etl_processing" THEN {EtlProcessingInterval, EtlErrorSleep}
    ELSE {MonitoringInterval, MonitoringErrorSleep}

\* thread.join(timeout=...)
JoinTimeout(svc) == IF svc = "ingestion" THEN IngestionJoinTimeout ELSE EtlJoinTimeout

\* ----------------------------------------------------------------- windows
\* df_raw, the extraction window, by what run_etl_cycle and the quality
\* checks look at: the number of records, and per check the number it
\* reports.  nulls counts null cells over all columns, so it is not
\* limited by the number of records.
Windows ==
    { w \in [ n      : 0..MaxWindow,
              nulls  : 0..MaxAffected,
              temp   : 0..MaxAffected,
              dups   : 0..MaxAffected,
              future : 0..MaxAffected ] :
        /\ w.temp <= w.n
        /\ w.dups <= w.n
        /\ w.future <= w.n
        /\ w.n = 0 => w.nulls = 0 }

NoWindow == [n |-> 0, nulls |-> 0, temp |-> 0, dups |-> 0, future |-> 0]

\* The columns of a window: the select list of extract_sensor_data, by
\* the names the later steps look columns up with.
ExtractColumns ==
    {"ID_MEDICAO", "ID_MAQUINA", "ID_SENSOR", "DATAHORA_MEDICAO",
     "VL_TEMPERATURA", "VL_PRESSAO", "VL_VIBRACAO", "VL_HUMIDADE",
     "VL_VIBR_X", "VL_VIBR_Y", "VL_VIBR_Z", "VL_GYRO_X", "VL_GYRO_Y",
     "VL_GYRO_Z", "FLAG_FALHA", "FONTE_DADOS", "TIPO_MAQUINA",
     "LOCALIZACAO", "STATUS_OPERACIONAL"}
WindowColumns == Cardinality(ExtractColumns)

\* The columns clean_and_transform_data adds to its copy.
DerivedColumns == {"VIBRACAO_MAGNITUDE", "TEMP_STATUS"}

\* A frame: the window (cycle) its rows are of, and its columns.
NoFrame == [id |-> 0, columns |-> {}]

\* The aggregations, in the order aggregate_data_for_reporting adds them.
ViewOrder == << "equipment_summary", "hourly_trends", "location_type_summary" >>
ViewNames == { ViewOrder[k] : k \in 1..Len(ViewOrder) }

\* Largest window in which one channel is null in 15% of the records.
NullWindowRows == 4 * MaxWindow

\* The windows in which one channel is null in exactly 15% of the records
\* and nothing else is wrong.
FifteenPercentWindows ==
    { w \in [ n : 1..NullWindowRows, nulls : 1..NullWindowRows,
              temp : {0}, dups : {0}, future : {0} ] :
        100 * w.nulls = 15 * w.n }

\* The windows of the runs that look at the gate.
GateWindows == Windows \cup FifteenPercentWindows

\* The windows of the runs with more than one processing loop.
WindowsRun ==
    { w \in Windows : /\ w.n \in {0, MaxWindow}
                      /\ w.nulls = 0 /\ w.dups = 0 /\ w.future = 0 }


\* perform_data_quality_checks(df): the list checks.  The thresholds
\* len(df) * 0.1 and (below) len(df) * 0.2 are float products; for the
\* integer counts compared with them the comparison agrees with the exact
\* one, which is written here without division.
QualityChecks(w) ==
    << [check_name |-> "NULL_VALUES",
        passed |-> 10 * w.nulls < w.n, affected_records |-> w.nulls],
       [check_name |-> "TEMPERATURE_RANGE",
        passed |-> w.temp = 0, affected_records |-> w.temp],
       [check_name |-> "DUPLICATES",
        passed |-> w.dups = 0, affected_records |-> w.dups],
       [check_name |-> "FUTURE_TIMESTAMPS",
        passed |-> w.future = 0, affected_records |-> w.future] >>

\* not c.passed and c.affected_records > len(df_raw) * 0.2
IsCriticalOverTenth(c, n) == ~c.passed /\ 10 * c.affected_records > n
IsCriticalAtThreshold(c, n) == ~c.passed /\ 5 * c.affected_records >= n
IsCritical(c, n) == ~c.passed /\ 5 * c.affected_records > n

\* critical_failures = [c for c in quality_checks if ...]
CriticalFailures(w) ==
    { k \in 1..Len(QualityChecks(w)) : IsCritical(QualityChecks(w)[k], w.n) }

\* ------------------------------------------------------------------- state
VARIABLES
    data_queue,        \* self.data_queue: Queue(maxsize=buffer_size), a FIFO
    is_running,        \* self.is_running
    total_records,     \* self.stats.total_records
    failed_inserts,    \* self.stats.failed_inserts
    records_failed,    \* PipelineMetrics.records_failed (etl_pipeline.py)
    db_connection,     \* self.db_connection: "none", "open" or "closed"
    uncommitted,       \* ids of the rows written in the connection's open transaction
    stored,            \* ids of the rows committed to T_MEDICAO
    mqtt_client,       \* self.mqtt_client: 0 is None, i the client of start i
    mqtt_alive,        \* the MQTT network threads that are running
    processing_thread, \* self.processing_thread / self.heartbeat_thread: 0 is None
    starts,            \* number of start() calls so far
    main_pc,           \* the caller: "idle", or inside stop()
    pc_p,              \* producer (MQTT thread): "idle" or "put"
    pending,           \* producer: the reading it is about to put
    decode_log,        \* last warning / error logged by process_sensor_data
    next_id,           \* next SensorReading object
    pc_w,              \* batch writer thread position
    batch,             \* batch writer: local list batch
    idx,               \* batch writer: position of the for loop in batch
    pc_h,              \* heartbeat thread position
    attempts,          \* per reading: number of insert_sensor_data calls
    start_result,      \* what the last start() returned: "none", "ok", "failed"
    put_by,            \* per reading: the producer that put it in the queue, or 0
    dim_rows,          \* T_EQUIPAMENTO: committed rows per id_maquina
    dim_pc,            \* per session: position in insert_sensor_data
    dim_key,           \* per session: id_maquina of the reading at hand
    dim_new,           \* per session: keys inserted in its open transaction
    etl_is_running,    \* SmartMaintenanceETLPipeline.is_running
    pipeline_status,   \* self.metrics.pipeline_status
    errors_count,      \* self.metrics.errors_count
    records_processed, \* self.metrics.records_processed
    ml_predictions,    \* self.metrics.ml_predictions
    alerts_generated,  \* self.metrics.alerts_generated
    last_run_time,     \* self.metrics.last_run_time: 0 is None, else the cycle
    quality_log_len,   \* len(self.data_quality_checks)
    loads,             \* number of load_aggregated_data calls so far
    exports,           \* number of export_data_to_files calls so far
    schedule_jobs,     \* number of jobs registered with the schedule module
    etl_starts,        \* number of SmartMaintenanceETLPipeline.start() calls so far
    etl_start_result,  \* what the last start() returned: "none", "ok", "failed"
    etl_main_pc,       \* the caller of the pipeline: "idle", or inside stop()
    etl_pc,            \* processing_loop thread position
    etl_win,           \* processing_loop thread: df_raw as the checks see it
    etl_len,           \* processing_loop thread: len(df_raw)
    df_raw,            \* processing_loop thread: df_raw, its window and columns
    df_clean,          \* processing_loop thread: df_clean, likewise
    clean_is_raw,      \* processing_loop thread: df_clean is the object df_raw
    aggregations,      \* processing_loop thread: the keys of aggregations
    load_todo,         \* load_aggregated_data: the views its for loop has left
    views,             \* per table T_AGG_<view>: the window its rows are of
    etl_cycles,        \* number of run_etl_cycle calls so far
    reject_streak,     \* history: cycles rejected in a row, up to now
    mon_pc,            \* monitoring_loop thread position
    health_report,     \* the last report of generate_health_report
    tm_service,        \* timed view: the service started, "none" before
    tm_flag,           \* timed view: its is_running
    tm_loop,           \* timed view: per loop "off", "test", "sleep", "exited"
    tm_sleep,          \* timed view: per loop, seconds left of time.sleep
    tm_stop,           \* timed view: position of the caller inside stop()
    tm_join,           \* timed view: seconds left of the join in progress
    column_in,         \* clean_and_transform_data: df['VL_TEMPERATURA'], by row
    column_out,        \* its result: df_clean['VL_TEMPERATURA'] and ['TEMP_STATUS']
    transform_pc,      \* "idle", "given" (called), "done" (returned), "again"
    axes_in,           \* clean_and_transform_data: VL_VIBR_X, _Y, _Z of a row
    axes_out,          \* its result: the three and VIBRACAO_MAGNITUDE
    column_again,      \* result of a second call, on the first result
    axes_again,        \* likewise
    agg_in,            \* aggregate_data_for_reporting: df, by row
    agg_out,           \* its result: per view of aggregations, the rows
    agg_pc,            \* "idle", "given" (called) or "done" (returned)
    orch_is_running,   \* SmartMaintenanceOrchestrator.is_running
    orch_pc,           \* the caller of start_system / stop_system
    orch_mode,         \* start_system: mode, "none" before the call
    orch_success,      \* start_system: its local success
    orch_component,    \* self.data_ingestion / self.etl_pipeline: "none", "created"
    svc_pc,            \* per component: position of run_ingestion / run_etl
    svc_started,       \* per component: what its start() returned
    stop_calls,        \* per component: number of stop() calls so far
    system_started     \* what start_system returned: "none", "true", "false"

vars ==
    << data_queue, is_running, total_records, failed_inserts, records_failed,
       db_connection, uncommitted, stored, mqtt_client, mqtt_alive,
       processing_thread, starts, main_pc, pc_p, pending, decode_log, next_id,
       pc_w, batch, idx, pc_h, attempts, start_result, put_by,
       dim_rows, dim_pc, dim_key, dim_new,
       etl_is_running, pipeline_status, errors_count, records_processed,
       ml_predictions, alerts_generated, last_run_time, quality_log_len, loads, exports, schedule_jobs,
       etl_starts, etl_start_result, etl_main_pc, etl_pc, etl_win,
       etl_len, df_raw, df_clean, clean_is_raw, aggregations, load_todo,
       views, etl_cycles, reject_streak, mon_pc, health_report,
       tm_service, tm_flag, tm_loop, tm_sleep, tm_stop, tm_join,
       column_in, column_out, transform_pc, axes_in, axes_out, column_again,
       axes_again, agg_in, agg_out, agg_pc,
       orch_is_running, orch_pc, orch_mode, orch_success, orch_component,
       svc_pc, svc_started, stop_calls, system_started >>

serviceVars == << is_running, db_connection, mqtt_client, mqtt_alive,
                  processing_thread, starts, main_pc, start_result >>
statsVars == << total_records, failed_inserts, records_failed >>
producerVars == << pc_p, pending, decode_log, next_id >>
writerVars == << pc_w, batch, idx, attempts >>
storeVars == << uncommitted, stored >>
dimVars == << dim_rows, dim_pc, dim_key, dim_new >>
ingestionVars ==
    << data_queue, serviceVars, statsVars, producerVars, writerVars,
       storeVars, pc_h, put_by >>
metricsVars == << errors_count, records_processed, ml_predictions,
                  alerts_generated, last_run_time >>
etlServiceVars == << etl_is_running, pipeline_status, etl_starts,
                     etl_start_result, etl_main_pc >>
frameVars == << df_raw, df_clean, clean_is_raw, aggregations, load_todo >>
etlCycleVars == << quality_log_len, loads, exports, etl_pc, etl_win,
                   etl_len, etl_cycles, reject_streak, frameVars, views >>
monitorVars == << schedule_jobs, mon_pc, health_report >>
etlVars == << metricsVars, etlServiceVars, etlCycleVars, monitorVars >>
timingVars == << tm_service, tm_flag, tm_loop, tm_sleep, tm_stop, tm_join >>
transformVars ==
    << column_in, column_out, transform_pc, axes_in, axes_out, column_again,
       axes_again >>
aggVars == << agg_in, agg_out, agg_pc >>
orchVars ==
    << orch_is_running, orch_pc, orch_mode, orch_success, orch_component,
       svc_pc, svc_started, stop_calls, system_started >>
nonIngestionVars ==
    << dimVars, etlVars, timingVars, transformVars, aggVars, orchVars >>
\* What the steps of the ingestion service other than the put leave alone.
otherVars == << nonIngestionVars, put_by >>
nonDimVars ==
    << ingestionVars, etlVars, timingVars, transformVars, aggVars, orchVars >>
nonEtlVars ==
    << ingestionVars, dimVars, timingVars, transformVars, aggVars, orchVars >>
nonTimingVars ==
    << ingestionVars, dimVars, etlVars, transformVars, aggVars, orchVars >>
nonTransformVars ==
    << ingestionVars, dimVars, etlVars, timingVars, aggVars, orchVars >>
nonAggVars ==
    << ingestionVars, dimVars, etlVars, timingVars, transformVars, orchVars >>
nonOrchVars ==
    << ingestionVars, dimVars, etlVars, timingVars, transformVars, aggVars >>

\* DataIngestionService.__init__
Init ==
    /\ data_queue = << >>
    /\ is_running = FALSE
    /\ total_records = 0
    /\ failed_inserts = 0
    /\ records_failed = 0
    /\ db_connection = "none"
    /\ uncommitted = {}
    /\ stored = {}
    /\ mqtt_client = 0
    /\ mqtt_alive = {}
    /\ processing_thread = 0
    /\ starts = 0
    /\ main_pc = "idle"
    /\ pc_p = [p \in Threads |-> "idle"]
    /\ pending = [p \in Threads |-> NoReading]
    /\ decode_log = "none"
    /\ next_id = 1
    /\ pc_w = [w \in Threads |-> "off"]
    /\ batch = [w \in Threads |-> << >>]
    /\ idx = [w \in Threads |-> 0]
    /\ pc_h = [h \in Threads |-> "off"]
    /\ attempts = [i \in Ids |-> 0]
    /\ start_result = "none"
    /\ put_by = [i \in Ids |-> 0]
    /\ dim_rows = [k \in DimKeys |-> 0]
    /\ dim_pc = [c \in Sessions |-> "idle"]
    /\ dim_key = [c \in Sessions |-> 0]
    /\ dim_new = [c \in Sessions |-> {}]
    /\ etl_is_running = FALSE
    /\ pipeline_status = "STOPPED"
    /\ errors_count = 0
    /\ records_processed = 0
    /\ ml_predictions = 0
    /\ alerts_generated = 0
    /\ last_run_time = 0
    /\ quality_log_len = 0
    /\ loads = 0
    /\ exports = 0
    /\ schedule_jobs = 0
    /\ etl_starts = 0
    /\ etl_start_result = "none"
    /\ etl_main_pc = "idle"
    /\ etl_pc = [t \in Threads |-> "off"]
    /\ etl_win = [t \in Threads |-> NoWindow]
    /\ etl_len = [t \in Threads |-> 0]
    /\ df_raw = [t \in Threads |-> NoFrame]
    /\ df_clean = [t \in Threads |-> NoFrame]
    /\ clean_is_raw = [t \in Threads |-> FALSE]
    /\ aggregations = [t \in Threads |-> {}]
    /\ load_todo = [t \in Threads |-> << >>]
    /\ views = [v \in ViewNames |-> 0]
    /\ etl_cycles = 0
    /\ reject_streak = 0
    /\ mon_pc = [t \in Threads |-> "off"]
    /\ health_report = [pipeline_status |-> "none", database_healthy |-> FALSE]
    /\ tm_service = "none"
    /\ tm_flag = FALSE
    /\ tm_loop = [l \in Loops |-> "off"]
    /\ tm_sleep = [l \in Loops |-> 0]
    /\ tm_stop = "none"
    /\ tm_join = 0
    /\ column_in = << >>
    /\ column_out = << >>
    /\ transform_pc = "idle"
    /\ axes_in = << >>
    /\ axes_out = << >>
    /\ column_again = << >>
    /\ axes_again = << >>
    /\ agg_in = << >>
    /\ agg_out = << >>
    /\ agg_pc = "idle"
    /\ orch_is_running = FALSE
    /\ orch_pc = "init"
    /\ orch_mode = "none"
    /\ orch_success = TRUE
    /\ orch_component = [c \in Components |-> "none"]
    /\ svc_pc = [c \in Components |-> "off"]
    /\ svc_started = [c \in Components |-> "none"]
    /\ stop_calls = [c \in Components |-> 0]
    /\ system_started = "none"

\* ------------------------------------------------------------------- queue
\* self.data_queue = Queue(maxsize=SYSTEM_CONFIG['buffer_size'])
QueueMaxSizeOffByOne == BufferSize + 1
QueueMaxSize == BufferSize

\* queue.Queue.full(): 0 < maxsize <= qsize
QueueFull(q) == 0 < QueueMaxSize /\ QueueMaxSize <= Len(q)

\* queue.Queue.put(item) with block=True and no timeout: returns only once
\* there is room (maxsize <= 0 is an unbounded queue).
QueueCanPut(q) == QueueMaxSize <= 0 \/ Len(q) < QueueMaxSize

\* queue.Queue.empty()
QueueEmpty(q) == Len(q) = 0

\* queue.Queue.put(item): the item goes to the end of the queue.
QueueAfterPut(q, item) == Append(q, item)

\* queue.Queue.get(): what is left in the queue after the head was taken.
QueuePeekOnly(q) == q
QueueAfterGet(q) == Tail(q)

\* ---------------------------------------------------------------- producer
\* process_sensor_data(payload), up to and including the full() test.
ProcessSensorData(p, m) ==
    /\ pc_p[p] = "idle"
    /\ LET outcome == Decode(m) IN
       IF outcome # "reading"
       THEN /\ decode_log' = outcome
            /\ UNCHANGED << pc_p, pending, next_id >>
       ELSE /\ next_id <= MaxReadings
            /\ next_id' = next_id + 1
            /\ IF ~QueueFull(data_queue)
               THEN /\ pc_p' = [pc_p EXCEPT ![p] = "put"]
                    /\ pending' = [pending EXCEPT ![p] = SensorReading(next_id, m)]
                    /\ UNCHANGED decode_log
               ELSE /\ decode_log' = "full"
                    /\ UNCHANGED << pc_p, pending >>
    /\ UNCHANGED otherVars
    /\ UNCHANGED << data_queue, serviceVars, statsVars, writerVars, storeVars, pc_h >>

\* on_mqtt_message on the network thread p, topic hermes/sensors/data.
OnMqttMessage(p, m) ==
    /\ p \in mqtt_alive
    /\ ProcessSensorData(p, m)

\* self.data_queue.put(sensor_reading); the debug line that follows is
\* below the configured log level (INFO).
QueuePut(p) ==
    /\ pc_p[p] = "put"
    /\ QueueCanPut(data_queue)
    /\ data_queue' = QueueAfterPut(data_queue, pending[p])
    /\ put_by' = [put_by EXCEPT ![pending[p].id] = p]
    /\ pc_p' = [pc_p EXCEPT ![p] = "idle"]
    /\ pending' = [pending EXCEPT ![p] = NoReading]
    /\ UNCHANGED nonIngestionVars
    /\ UNCHANGED << decode_log, next_id, serviceVars, statsVars, writerVars, storeVars, pc_h >>

\* ------------------------------------------------------------ batch writer
\* The reading the for loop of data_processing_loop is at.
Current(w) == batch[w][idx[w]]

\* while self.is_running: (top of data_processing_loop); batch = [].
LoopCheck(w) ==
    /\ pc_w[w] = "loop"
    /\ IF is_running
       THEN /\ pc_w' = [pc_w EXCEPT ![w] = "drain"]
            /\ batch' = [batch EXCEPT ![w] = << >>]
            /\ idx' = [idx EXCEPT ![w] = 0]
       ELSE /\ pc_w' = [pc_w EXCEPT ![w] = "done"]
            /\ batch' = [batch EXCEPT ![w] = << >>]
            /\ idx' = [idx EXCEPT ![w] = 0]
    /\ UNCHANGED otherVars
    /\ UNCHANGED << data_queue, attempts, serviceVars, statsVars, producerVars,
                    storeVars, pc_h >>

\* while len(batch) < batch_size and not self.data_queue.empty():
DrainOneTooMany(b, q) == Len(b) <= BatchSize /\ ~QueueEmpty(q)
DrainMore(b, q) == Len(b) < BatchSize /\ ~QueueEmpty(q)

\* Where the writer goes once the collecting loop is left: "if batch:".
AfterDrain(w) ==
    IF batch[w] # << >>
    THEN /\ pc_w' = [pc_w EXCEPT ![w] = "call"]
         /\ idx' = [idx EXCEPT ![w] = 1]
    ELSE /\ pc_w' = [pc_w EXCEPT ![w] = "loop"]
         /\ UNCHANGED idx

\* One evaluation of the collecting loop's condition.
DrainCheck(w) ==
    /\ pc_w[w] = "drain"
    /\ IF DrainMore(batch[w], data_queue)
       THEN /\ pc_w' = [pc_w EXCEPT ![w] = "get"]
            /\ UNCHANGED idx
       ELSE AfterDrain(w)
    /\ UNCHANGED otherVars
    /\ UNCHANGED << data_queue, batch, attempts, serviceVars, statsVars,
                    producerVars, storeVars, pc_h >>

\* reading = self.data_queue.get(timeout=1); batch.append(reading).
\* On an empty queue (another consumer took the item) the get times out,
\* raises Empty, and the bare except leaves the collecting loop.
QueueGet(w) ==
    /\ pc_w[w] = "get"
    /\ IF ~QueueEmpty(data_queue)
       THEN /\ batch' = [batch EXCEPT ![w] = Append(@, Head(data_queue))]
            /\ data_queue' = QueueAfterGet(data_queue)
            /\ pc_w' = [pc_w EXCEPT ![w] = "drain"]
            /\ UNCHANGED idx
       ELSE /\ AfterDrain(w)
            /\ UNCHANGED << data_queue, batch >>
    /\ UNCHANGED otherVars
    /\ UNCHANGED << attempts, serviceVars, statsVars, producerVars, storeVars, pc_h >>

\* The for loop of data_processing_loop moves to the next reading, or the
\* cycle ends (log line, time.sleep) and control returns to the while test.
Advance(w) ==
    IF idx[w] < Len(batch[w])
    THEN /\ idx' = [idx EXCEPT ![w] = @ + 1]
         /\ pc_w' = [pc_w EXCEPT ![w] = "call"]
    ELSE /\ pc_w' = [pc_w EXCEPT ![w] = "loop"]
         /\ UNCHANGED idx

\* insert_sensor_data, first part: cursor(), get_or_create_equipment,
\* get_or_create_sensor, callproc('SP_INSERT_MEDICAO').  On a connection
\* that is not open cursor() raises; on an open one the store decides.
InsertCall(w, ok) ==
    /\ pc_w[w] = "call"
    /\ attempts' = [attempts EXCEPT ![Current(w).id] = @ + 1]
    /\ IF db_connection = "open" /\ ok
       THEN /\ uncommitted' = uncommitted \cup {Current(w).id}
            /\ pc_w' = [pc_w EXCEPT ![w] = "commit"]
       ELSE /\ pc_w' = [pc_w EXCEPT ![w] = "except"]
            /\ UNCHANGED uncommitted
    /\ UNCHANGED otherVars
    /\ UNCHANGED << data_queue, batch, idx, stored, serviceVars, statsVars,
                    producerVars, pc_h >>

\* self.db_connection.commit()
InsertCommit(w) ==
    /\ pc_w[w] = "commit"
    /\ IF db_connection = "open"
       THEN /\ stored' = stored \cup uncommitted
            /\ uncommitted' = {}
            /\ pc_w' = [pc_w EXCEPT ![w] = "count"]
       ELSE /\ pc_w' = [pc_w EXCEPT ![w] = "except"]
            /\ UNCHANGED << stored, uncommitted >>
    /\ UNCHANGED otherVars
    /\ UNCHANGED << data_queue, batch, idx, attempts, serviceVars, statsVars,
                    producerVars, pc_h >>

\* self.stats.total_records += 1; return True
InsertCount(w) ==
    /\ pc_w[w] = "count"
    /\ total_records' = total_records + 1
    /\ Advance(w)
    /\ UNCHANGED otherVars
    /\ UNCHANGED << data_queue, batch, attempts, failed_inserts, records_failed,
                    serviceVars, producerVars, storeVars, pc_h >>

\* except Exception: rollback(); failed_inserts += 1; return False.
\* rollback() on a connection that stop() has closed raises in turn: the
\* exception leaves insert_sensor_data and the for loop, and is caught by
\* the except of data_processing_loop (log, time.sleep(5)).
InsertExcept(w) ==
    /\ pc_w[w] = "except"
    /\ IF db_connection = "open"
       THEN /\ uncommitted' = {}
            /\ failed_inserts' = failed_inserts + 1
            /\ Advance(w)
       ELSE /\ pc_w' = [pc_w EXCEPT ![w] = "loop"]
            /\ UNCHANGED << uncommitted, failed_inserts, idx >>
    /\ UNCHANGED otherVars
    /\ UNCHANGED << data_queue, batch, attempts, stored, total_records,
                    records_failed, serviceVars, producerVars, pc_h >>

\* --------------------------------------------------------------- heartbeat
\* One turn of heartbeat_loop: the while test, update_stats(), the log line.
\* update_stats sets total_records to SELECT COUNT(*) FROM T_MEDICAO; on a
\* closed connection cursor() raises and the exception is logged.
HeartbeatLoop(h) ==
    /\ pc_h[h] = "run"
    /\ IF is_running
       THEN /\ total_records' = IF db_connection = "open"
                                THEN Cardinality(stored)
                                ELSE total_records
            /\ UNCHANGED pc_h
       ELSE /\ pc_h' = [pc_h EXCEPT ![h] = "done"]
            /\ UNCHANGED total_records
    /\ UNCHANGED otherVars
    /\ UNCHANGED << data_queue, failed_inserts, records_failed, serviceVars,
                    producerVars, writerVars, storeVars >>

\* ---------------------------------------------------- dimension rows
\* insert_sensor_data as run by two service instances, each on its own
\* database session, with the store available: get_or_create_equipment
\* (get_or_create_sensor has the same shape on T_SENSOR), then callproc
\* and commit.  A session sees the committed rows and its own inserts.

\* cursor = self.db_connection.cursor() for a reading with id_maquina k.
DimBegin(c, k) ==
    /\ dim_pc[c] = "idle"
    /\ dim_pc' = [dim_pc EXCEPT ![c] = "select"]
    /\ dim_key' = [dim_key EXCEPT ![c] = k]
    /\ UNCHANGED << dim_rows, dim_new >>
    /\ UNCHANGED nonDimVars

\* SELECT COUNT(*) FROM T_EQUIPAMENTO WHERE id_maquina = :1
DimCount(c, k) == dim_rows[k] + (IF k \in dim_new[c] THEN 1 ELSE 0)

\* if cursor.fetchone()[0] == 0:
DimSelect(c) ==
    /\ dim_pc[c] = "select"
    /\ dim_pc' = [dim_pc EXCEPT ![c] =
                     IF DimCount(c, dim_key[c]) = 0 THEN "insert" ELSE "call"]
    /\ UNCHANGED << dim_rows, dim_key, dim_new >>
    /\ UNCHANGED nonDimVars

\* id_maquina is the primary key of T_EQUIPAMENTO: an INSERT of a key that
\* another session has inserted and not yet committed waits for that
\* session; an INSERT of a committed key raises ORA-00001.
DimInsertWaits(c, k) == \E d \in Sessions \ {c} : k \in dim_new[d]
UniqueViolation(k) == dim_rows[k] > 0

\* INSERT INTO T_EQUIPAMENTO ...; nothing in get_or_create_equipment or in
\* insert_sensor_data tells a uniqueness violation from any other error.
DimInsert(c) ==
    /\ dim_pc[c] = "insert"
    /\ ~DimInsertWaits(c, dim_key[c])
    /\ IF UniqueViolation(dim_key[c])
       THEN /\ dim_pc' = [dim_pc EXCEPT ![c] = "except"]
            /\ UNCHANGED dim_new
       ELSE /\ dim_pc' = [dim_pc EXCEPT ![c] = "call"]
            /\ dim_new' = [dim_new EXCEPT ![c] = @ \cup {dim_key[c]}]
    /\ UNCHANGED << dim_rows, dim_key >>
    /\ UNCHANGED nonDimVars

\* callproc('SP_INSERT_MEDICAO'); self.db_connection.commit(); return True
DimCommit(c) ==
    /\ dim_pc[c] = "call"
    /\ dim_rows' = [k \in DimKeys |->
                      dim_rows[k] + (IF k \in dim_new[c] THEN 1 ELSE 0)]
    /\ dim_new' = [dim_new EXCEPT ![c] = {}]
    /\ dim_pc' = [dim_pc EXCEPT ![c] = "idle"]
    /\ dim_key' = [dim_key EXCEPT ![c] = 0]
    /\ UNCHANGED nonDimVars

\* except Exception: rollback(); failed_inserts += 1; return False: the
\* reading is counted as failed by the session's service and dropped.
DimExcept(c) ==
    /\ dim_pc[c] = "except"
    /\ dim_new' = [dim_new EXCEPT ![c] = {}]
    /\ dim_pc' = [dim_pc EXCEPT ![c] = "idle"]
    /\ dim_key' = [dim_key EXCEPT ![c] = 0]
    /\ UNCHANGED dim_rows
    /\ UNCHANGED nonDimVars

\* ------------------------------------------------------------ start / stop
\* start(): connect_database(), connect_mqtt(), is_running = True, the two
\* threads.  db_ok / mqtt_ok: whether the two connects succeed.
\* start() reaches "self.is_running = True" when both connects succeeded.
StartLaunches(db_ok, mqtt_ok) == db_ok /\ mqtt_ok

Start(db_ok, mqtt_ok) ==
    /\ main_pc = "idle"
    /\ starts < MaxStarts
    /\ starts' = starts + 1
    /\ start_result' = IF db_ok /\ mqtt_ok THEN "ok" ELSE "failed"
    /\ IF ~db_ok
       THEN UNCHANGED << db_connection, uncommitted, mqtt_client, mqtt_alive,
                         is_running, processing_thread, pc_w, pc_h >>
       ELSE /\ db_connection' = "open"
            /\ uncommitted' = {}
            /\ mqtt_client' = starts + 1
            /\ IF ~StartLaunches(db_ok, mqtt_ok)
               THEN UNCHANGED << mqtt_alive, is_running, processing_thread,
                                 pc_w, pc_h >>
               ELSE /\ mqtt_alive' = mqtt_alive \cup {starts + 1}
                    /\ is_running' = TRUE
                    /\ processing_thread' = starts + 1
                    /\ pc_w' = [pc_w EXCEPT ![starts + 1] = "loop"]
                    /\ pc_h' = [pc_h EXCEPT ![starts + 1] = "run"]
    /\ UNCHANGED otherVars
    /\ UNCHANGED << data_queue, stored, main_pc, batch, idx, attempts,
                    statsVars, producerVars >>

\* stop(), first statement: self.is_running = False.  The two joins that
\* follow have a timeout of 10 s: they return when the thread has ended or
\* when the timeout has elapsed, whichever is first.
StopSignal ==
    /\ main_pc = "idle"
    /\ is_running' = FALSE
    /\ main_pc' = "disconnect"
    /\ UNCHANGED otherVars
    /\ UNCHANGED << data_queue, db_connection, mqtt_client, mqtt_alive,
                    processing_thread, starts, start_result, statsVars,
                    producerVars, writerVars, storeVars, pc_h >>

\* stop(), after the joins: mqtt_client.loop_stop() (joins the network
\* thread, so it waits for a callback in progress), disconnect(), and
\* db_connection.close(), which discards the open transaction.
StopDisconnect ==
    /\ main_pc = "disconnect"
    /\ mqtt_client \in mqtt_alive => pc_p[mqtt_client] = "idle"
    /\ mqtt_alive' = mqtt_alive \ {mqtt_client}
    /\ db_connection' = IF db_connection = "none" THEN "none" ELSE "closed"
    /\ uncommitted' = {}
    /\ main_pc' = "idle"
    /\ UNCHANGED otherVars
    /\ UNCHANGED << data_queue, is_running, mqtt_client, processing_thread,
                    starts, start_result, stored, statsVars, producerVars,
                    writerVars, pc_h >>

\* ----------------------------------------------------------- specification
\* start() by a caller that starts the service once: it calls start() again
\* only as long as no start() has succeeded.
StartOnce(db_ok, mqtt_ok) ==
    /\ processing_thread = 0
    /\ Start(db_ok, mqtt_ok)

\* Every step but start().
Run ==
    \/ StopSignal
    \/ StopDisconnect
    \/ \E p \in Threads, m \in PayloadsRun : OnMqttMessage(p, m)
    \/ \E p \in Threads : QueuePut(p)
    \/ \E w \in Threads : LoopCheck(w)
    \/ \E w \in Threads : DrainCheck(w)
    \/ \E w \in Threads : QueueGet(w)
    \/ \E w \in Threads, ok \in BOOLEAN : InsertCall(w, ok)
    \/ \E w \in Threads : InsertCommit(w)
    \/ \E w \in Threads : InsertCount(w)
    \/ \E w \in Threads : InsertExcept(w)
    \/ \E h \in Threads : HeartbeatLoop(h)

Next ==
    \/ \E db_ok \in BOOLEAN, mqtt_ok \in BOOLEAN : StartOnce(db_ok, mqtt_ok)
    \/ Run

Spec == Init /\ [][Next]_vars

NextRestart ==
    \/ \E db_ok \in BOOLEAN, mqtt_ok \in BOOLEAN : Start(db_ok, mqtt_ok)
    \/ Run

RestartSpec == Init /\ [][NextRestart]_vars

\* Messages of every kind arriving at a service that was started once and
\* is not stopped, with the store available.
DecodeNext ==
    \/ StartOnce(TRUE, TRUE)
    \/ \E p \in Threads, m \in Payloads : OnMqttMessage(p, m)
    \/ \E p \in Threads : QueuePut(p)
    \/ \E w \in Threads : LoopCheck(w)
    \/ \E w \in Threads : DrainCheck(w)
    \/ \E w \in Threads : QueueGet(w)
    \/ \E w \in Threads : InsertCall(w, TRUE)
    \/ \E w \in Threads : InsertCommit(w)
    \/ \E w \in Threads : InsertCount(w)

DecodeSpec == Init /\ [][DecodeNext]_vars

\* Two service instances writing readings to the same store.
DimNext ==
    \/ \E c \in Sessions, k \in DimKeys : DimBegin(c, k)
    \/ \E c \in Sessions : DimSelect(c)
    \/ \E c \in Sessions : DimInsert(c)
    \/ \E c \in Sessions : DimCommit(c)
    \/ \E c \in Sessions : DimExcept(c)

DimSpec == Init /\ [][DimNext]_vars

\* ------------------------------------------------------------ ETL pipeline
\* SmartMaintenanceETLPipeline (src/integration/etl_pipeline.py).  The i-th call of
\* start() creates the processing_loop and monitoring_loop threads with
\* index i.  start() and stop() are run by one caller.

\* while self.is_running: (top of processing_loop)
EtlLoopTest(t) ==
    /\ etl_pc[t] = "loop"
    /\ etl_pc' = [etl_pc EXCEPT ![t] = IF etl_is_running THEN "cycle" ELSE "done"]
    /\ UNCHANGED << quality_log_len, loads, exports, etl_win, etl_len,
                    etl_cycles, reject_streak, frameVars, views >>
    /\ UNCHANGED << metricsVars, etlServiceVars, monitorVars, nonEtlVars >>

\* run_etl_cycle, step 1: df_raw = extract_sensor_data(hours_back=1); an
\* empty window (also what a failed query gives) ends the cycle with True.
EtlExtract(t, w) ==
    /\ etl_pc[t] = "cycle"
    /\ etl_cycles' = etl_cycles + 1
    /\ IF w.n = 0
       THEN /\ etl_pc' = [etl_pc EXCEPT ![t] = "loop"]
            /\ reject_streak' = 0
            /\ UNCHANGED << etl_win, etl_len, df_raw >>
       ELSE /\ etl_pc' = [etl_pc EXCEPT ![t] = "quality"]
            /\ etl_win' = [etl_win EXCEPT ![t] = w]
            /\ etl_len' = [etl_len EXCEPT ![t] = w.n]
            /\ df_raw' = [df_raw EXCEPT ![t] = [id |-> etl_cycles + 1,
                                               columns |-> ExtractColumns]]
            /\ UNCHANGED reject_streak
    /\ UNCHANGED << quality_log_len, loads, exports, views >>
    /\ UNCHANGED << df_clean, clean_is_raw, aggregations, load_todo >>
    /\ UNCHANGED << metricsVars, etlServiceVars, monitorVars, nonEtlVars >>

\* self.metrics.errors_count += 1
ErrorsAfterAbortUncounted(e) == e
ErrorsAfterAbort(e) == e + 1

\* The return of run_etl_cycle: its locals are gone.
CycleReturns(t) ==
    /\ etl_win' = [etl_win EXCEPT ![t] = NoWindow]
    /\ etl_len' = [etl_len EXCEPT ![t] = 0]
    /\ df_raw' = [df_raw EXCEPT ![t] = NoFrame]
    /\ df_clean' = [df_clean EXCEPT ![t] = NoFrame]
    /\ clean_is_raw' = [clean_is_raw EXCEPT ![t] = FALSE]
    /\ aggregations' = [aggregations EXCEPT ![t] = {}]
    /\ load_todo' = [load_todo EXCEPT ![t] = << >>]

\* run_etl_cycle, step 2: the quality checks, their results appended to
\* self.data_quality_checks, and the gate: with a critical failure
\* errors_count += 1 and return False, else on to the transform.  Nothing
\* after the gate reads the checks; the later steps use the frame itself.
\* Check 4 assigns pd.to_datetime(df['DATAHORA_MEDICAO']) to the column of
\* df_raw; the column read from a TIMESTAMP is of that type already, so the
\* assignment stores what was there.
EtlQuality(t) ==
    /\ etl_pc[t] = "quality"
    /\ quality_log_len' = quality_log_len + Len(QualityChecks(etl_win[t]))
    /\ IF CriticalFailures(etl_win[t]) # {}
       THEN /\ errors_count' = ErrorsAfterAbort(errors_count)
            /\ etl_pc' = [etl_pc EXCEPT ![t] = "loop"]
            /\ CycleReturns(t)
            /\ reject_streak' = reject_streak + 1
       ELSE /\ etl_pc' = [etl_pc EXCEPT ![t] = "transform"]
            /\ etl_win' = [etl_win EXCEPT ![t] = NoWindow]
            /\ UNCHANGED << errors_count, etl_len, reject_streak, frameVars >>
    /\ UNCHANGED << records_processed, ml_predictions, alerts_generated,
                    last_run_time, loads, exports, etl_cycles, views >>
    /\ UNCHANGED << etlServiceVars, monitorVars, nonEtlVars >>

\* run_etl_cycle, step 3: df_clean = clean_and_transform_data(df_raw).
\* It works on df.copy() and adds the derived columns; ok: whether it got
\* to the end of its try block (its except returns df, the frame it was
\* given).
EtlTransform(t, ok) ==
    /\ etl_pc[t] = "transform"
    /\ etl_pc' = [etl_pc EXCEPT ![t] = "aggregate"]
    /\ df_clean' = [df_clean EXCEPT ![t] =
                      IF ok THEN [df_raw[t] EXCEPT
                                    !.columns = @ \cup DerivedColumns]
                      ELSE df_raw[t]]
    /\ clean_is_raw' = [clean_is_raw EXCEPT ![t] = ~ok]
    /\ UNCHANGED << quality_log_len, loads, exports, etl_win, etl_len,
                    etl_cycles, reject_streak, df_raw, aggregations,
                    load_todo, views >>
    /\ UNCHANGED << metricsVars, etlServiceVars, monitorVars, nonEtlVars >>

\* df['hour'] = pd.to_datetime(df['DATAHORA_MEDICAO']).dt.floor('H')
WithHour(f) == [f EXCEPT !.columns = @ \cup {"hour"}]

\* run_etl_cycle, step 4: aggregations =
\* aggregate_data_for_reporting(df_clean): the three views, built from the
\* frame it is given, to which it adds the column 'hour'; ok: whether it
\* got to the end of its try block (its except returns {}; here the first
\* groupby is what fails).
EtlAggregate(t, ok) ==
    /\ etl_pc[t] = "aggregate"
    /\ etl_pc' = [etl_pc EXCEPT ![t] = "predict"]
    /\ IF ok
       THEN /\ aggregations' = [aggregations EXCEPT ![t] = ViewNames]
            /\ df_clean' = [df_clean EXCEPT ![t] = WithHour(@)]
            /\ df_raw' = [df_raw EXCEPT ![t] =
                            IF clean_is_raw[t] THEN WithHour(@) ELSE @]
       ELSE UNCHANGED << aggregations, df_clean, df_raw >>
    /\ UNCHANGED << quality_log_len, loads, exports, etl_win, etl_len,
                    etl_cycles, reject_streak, clean_is_raw, load_todo, views >>
    /\ UNCHANGED << metricsVars, etlServiceVars, monitorVars, nonEtlVars >>

\* self.metrics.ml_predictions += len(predictions)
PredictionsAfterAssigned(p, k) == k
PredictionsAfter(p, k) == p + k

\* run_etl_cycle, step 5: run_ml_predictions(df_clean), one prediction for
\* each of the k machines of the frame; ok: whether it got to the end of
\* its try block (its except returns an empty frame and counts nothing).
EtlPredict(t, k, ok) ==
    /\ etl_pc[t] = "predict"
    /\ k <= etl_len[t]
    /\ ok \/ k = 1
    /\ ml_predictions' = IF ok THEN PredictionsAfter(ml_predictions, k)
                         ELSE ml_predictions
    /\ etl_pc' = [etl_pc EXCEPT ![t] = "load"]
    /\ UNCHANGED << errors_count, records_processed, alerts_generated,
                    last_run_time >>
    /\ UNCHANGED << quality_log_len, loads, exports, etl_win, etl_len,
                    etl_cycles, reject_streak, frameVars, views >>
    /\ UNCHANGED << etlServiceVars, monitorVars, nonEtlVars >>

\* for table_name, df in aggregations.items(): in insertion order
LoadOrder(aggs) == SelectSeq(ViewOrder, LAMBDA v : v \in aggs)

\* run_etl_cycle, step 6: "if aggregations:
\* self.load_aggregated_data(aggregations)", up to its for loop.
EtlLoad(t) ==
    /\ etl_pc[t] = "load"
    /\ IF aggregations[t] = {}
       THEN /\ etl_pc' = [etl_pc EXCEPT ![t] = "export"]
            /\ UNCHANGED << loads, load_todo >>
       ELSE /\ etl_pc' = [etl_pc EXCEPT ![t] = "load_view"]
            /\ loads' = loads + 1
            /\ load_todo' = [load_todo EXCEPT ![t] = LoadOrder(aggregations[t])]
    /\ UNCHANGED << quality_log_len, exports, etl_win, etl_len, etl_cycles,
                    reject_streak, df_raw, df_clean, clean_is_raw,
                    aggregations, views >>
    /\ UNCHANGED << metricsVars, etlServiceVars, monitorVars, nonEtlVars >>

\* The table after df.to_sql(..., if_exists='replace') of a view built
\* from the window id.
ViewAfterLoad(vs, v, id) == [vs EXCEPT ![v] = id]

\* load_aggregated_data, one turn of its for loop: the to_sql of one
\* view in its own try; ok: whether it succeeded (its except logs, sets
\* success = False and the loop goes on with the next view).
EtlLoadView(t, ok) ==
    /\ etl_pc[t] = "load_view"
    /\ load_todo[t] # << >>
    /\ views' = IF ok THEN ViewAfterLoad(views, Head(load_todo[t]), df_clean[t].id)
                ELSE views
    /\ load_todo' = [load_todo EXCEPT ![t] = Tail(@)]
    /\ etl_pc' = [etl_pc EXCEPT ![t] =
                    IF Tail(load_todo[t]) = << >> THEN "export" ELSE "load_view"]
    /\ UNCHANGED << quality_log_len, loads, exports, etl_win, etl_len,
                    etl_cycles, reject_streak, df_raw, df_clean, clean_is_raw,
                    aggregations >>
    /\ UNCHANGED << metricsVars, etlServiceVars, monitorVars, nonEtlVars >>

\* run_etl_cycle, step 7: export_data_to_files(df_clean, aggregations)
EtlExport(t) ==
    /\ etl_pc[t] = "export"
    /\ exports' = exports + 1
    /\ etl_pc' = [etl_pc EXCEPT ![t] = "metrics"]
    /\ UNCHANGED << quality_log_len, loads, etl_win, etl_len, etl_cycles,
                    reject_streak, frameVars, views >>
    /\ UNCHANGED << metricsVars, etlServiceVars, monitorVars, nonEtlVars >>

\* run_etl_cycle, step 8: records_processed += len(df_raw), last_run_time,
\* return True; then the sleep of processing_loop.
\* self.metrics.records_processed += len(df_raw)
ProcessedAfterCycle(p, n) == p + 1
ProcessedAfter(p, n) == p + n

EtlMetrics(t) ==
    /\ etl_pc[t] = "metrics"
    /\ records_processed' = ProcessedAfter(records_processed, etl_len[t])
    /\ last_run_time' = etl_cycles
    /\ etl_pc' = [etl_pc EXCEPT ![t] = "loop"]
    /\ CycleReturns(t)
    /\ reject_streak' = 0
    /\ UNCHANGED << errors_count, ml_predictions, alerts_generated,
                    quality_log_len, loads, exports, etl_cycles, views >>
    /\ UNCHANGED << etlServiceVars, monitorVars, nonEtlVars >>

\* Where processing_loop is after a cycle that returned False: the
\* warning, the sleep, and back to its while test.
AfterFailedCycleLeaves == "done"
AfterFailedCycle == "loop"

\* The positions of run_etl_cycle between the extraction and its return.
CyclePositions ==
    {"quality", "transform", "aggregate", "predict", "load", "load_view",
     "export", "metrics"}

\* run_etl_cycle, its "except Exception": an exception that a step of the
\* cycle lets through is logged, errors_count += 1, return False; the
\* processing loop then sleeps and tests its flag again.  The cycle was
\* not rejected by the gate, so it ends a run of rejected cycles.
EtlCycleRaises(t) ==
    /\ etl_pc[t] \in CyclePositions
    /\ errors_count' = ErrorsAfterAbort(errors_count)
    /\ etl_pc' = [etl_pc EXCEPT ![t] = AfterFailedCycle]
    /\ CycleReturns(t)
    /\ reject_streak' = 0
    /\ UNCHANGED << records_processed, ml_predictions, alerts_generated,
                    last_run_time, quality_log_len, loads, exports,
                    etl_cycles, views >>
    /\ UNCHANGED << etlServiceVars, monitorVars, nonEtlVars >>

\* monitoring_loop, before its while: the three schedule.every(...).do(...)
MonRegister(t) ==
    /\ mon_pc[t] = "register"
    /\ schedule_jobs' = schedule_jobs + 3
    /\ mon_pc' = [mon_pc EXCEPT ![t] = "run"]
    /\ UNCHANGED health_report
    /\ UNCHANGED << metricsVars, etlServiceVars, etlCycleVars, nonEtlVars >>

\* self.data_quality_checks[-20:], the checks a report looks at
ReportedChecks == 20

\* No report yet.
NoReport == [pipeline_status |-> "none", database_healthy |-> FALSE]

\* generate_health_report(): the report, by its fields pipeline_status
\* and database_healthy; the latter is the result of its probe of the
\* store ("SELECT 1 FROM DUAL" in a try / except that sets db_healthy).
\* The other fields are copies of the counters and of the clock.
GenerateHealthReportProbeIgnored(db_healthy) ==
    [pipeline_status |-> pipeline_status, database_healthy |-> TRUE]
GenerateHealthReport(db_healthy) ==
    [pipeline_status |-> pipeline_status, database_healthy |-> db_healthy]

\* The jobs monitoring_loop registers, and no job.
Jobs == {"none", "save_health_report", "cleanup_old_data", "run_ml_training_cycle"}

\* The two maintenance jobs among them.
MaintenanceJobs == {"cleanup_old_data", "run_ml_training_cycle"}

\* One turn of monitoring_loop: the while test, schedule.run_pending()
\* running the job that is due, the errors_count warning, the sleep.
\* ok: whether the job came to its end (for the report: whether the probe
\* of the store succeeded); each job catches its exceptions, and the
\* "except Exception" of the loop catches what run_pending raises.
MonLoop(t, job, ok) ==
    /\ mon_pc[t] = "run"
    /\ mon_pc' = [mon_pc EXCEPT ![t] = IF etl_is_running THEN "run" ELSE "done"]
    /\ health_report' = IF etl_is_running /\ job = "save_health_report"
                        THEN GenerateHealthReport(ok)
                        ELSE health_report
    /\ UNCHANGED schedule_jobs
    /\ UNCHANGED << metricsVars, etlServiceVars, etlCycleVars, nonEtlVars >>

\* start() reaches "self.is_running = True" when connect_database() succeeded.
EtlStartLaunchesAlways(db_ok) == TRUE
EtlStartLaunches(db_ok) == db_ok

\* SmartMaintenanceETLPipeline.start(); db_ok: whether connect_database() succeeds.
EtlStart(db_ok) ==
    /\ etl_main_pc = "idle"
    /\ etl_starts < MaxStarts
    /\ etl_starts' = etl_starts + 1
    /\ etl_start_result' = IF db_ok THEN "ok" ELSE "failed"
    /\ IF ~EtlStartLaunches(db_ok)
       THEN UNCHANGED << etl_is_running, pipeline_status, etl_pc, mon_pc >>
       ELSE /\ etl_is_running' = TRUE
            /\ pipeline_status' = "RUNNING"
            /\ etl_pc' = [etl_pc EXCEPT ![etl_starts + 1] = "loop"]
            /\ mon_pc' = [mon_pc EXCEPT ![etl_starts + 1] = "register"]
    /\ UNCHANGED << etl_main_pc, schedule_jobs, health_report, quality_log_len,
                    loads, exports, etl_win, etl_len, etl_cycles, reject_streak,
                    frameVars, views >>
    /\ UNCHANGED << metricsVars, nonEtlVars >>

\* stop(), first two statements.
StatusAfterStopUnchanged == pipeline_status
StatusAfterStop == "STOPPED"

EtlStopSignal ==
    /\ etl_main_pc = "idle"
    /\ etl_is_running' = FALSE
    /\ pipeline_status' = StatusAfterStop
    /\ etl_main_pc' = "join"
    /\ UNCHANGED << etl_starts, etl_start_result >>
    /\ UNCHANGED << metricsVars, etlCycleVars, monitorVars, nonEtlVars >>

\* stop(), the rest: the two joins (timeout 30 s each: they return when the
\* thread has ended or the timeout has elapsed), executor.shutdown,
\* save_health_report (reads the metrics, writes a file); db_healthy:
\* whether the probe of the report succeeds.
EtlStopFinish(db_healthy) ==
    /\ etl_main_pc = "join"
    /\ etl_main_pc' = "idle"
    /\ health_report' = GenerateHealthReport(db_healthy)
    /\ UNCHANGED << schedule_jobs, mon_pc >>
    /\ UNCHANGED << etl_is_running, pipeline_status, etl_starts, etl_start_result >>
    /\ UNCHANGED << metricsVars, etlCycleVars, nonEtlVars >>

\* start() by a caller that starts the pipeline once.
EtlStartOnce(db_ok) ==
    /\ \A t \in Threads : etl_pc[t] = "off"
    /\ EtlStart(db_ok)

\* Every step of the pipeline but start() and the extraction, for windows
\* of one machine, with no job of the schedule due and no exception.
EtlRun ==
    \/ EtlStopSignal
    \/ \E db_healthy \in BOOLEAN : EtlStopFinish(db_healthy)
    \/ \E t \in Threads : EtlLoopTest(t)
    \/ \E t \in Threads : EtlQuality(t)
    \/ \E t \in Threads : EtlTransform(t, TRUE)
    \/ \E t \in Threads : EtlAggregate(t, TRUE)
    \/ \E t \in Threads : EtlPredict(t, 1, TRUE)
    \/ \E t \in Threads : EtlLoad(t)
    \/ \E t \in Threads : EtlLoadView(t, TRUE)
    \/ \E t \in Threads : EtlExport(t)
    \/ \E t \in Threads : EtlMetrics(t)
    \/ \E t \in Threads : MonRegister(t)
    \/ \E t \in Threads : MonLoop(t, "none", TRUE)

EtlNext ==
    \/ \E db_ok \in BOOLEAN : EtlStartOnce(db_ok)
    \/ \E t \in Threads :
          /\ etl_pc[t] = "cycle"
          /\ etl_cycles < MaxCycles
          /\ \E w \in WindowsRun : EtlExtract(t, w)
    \/ EtlRun

EtlSpec == Init /\ [][EtlNext]_vars

\* The cycles of a pipeline that is not stopped, over every window.
GateNext ==
    \/ \E db_ok \in BOOLEAN : EtlStartOnce(db_ok)
    \/ \E t \in Threads : EtlLoopTest(t)
    \/ \E t \in Threads :
          /\ etl_pc[t] = "cycle"
          /\ etl_cycles < GateCycles
          /\ \E w \in GateWindows : EtlExtract(t, w)
    \/ \E t \in Threads : EtlQuality(t)
    \/ \E t \in Threads : EtlTransform(t, TRUE)
    \/ \E t \in Threads : EtlAggregate(t, TRUE)
    \/ \E t \in Threads, k \in DimKeys, ok \in BOOLEAN : EtlPredict(t, k, ok)
    \/ \E t \in Threads : EtlLoad(t)
    \/ \E t \in Threads : EtlLoadView(t, TRUE)
    \/ \E t \in Threads : EtlExport(t)
    \/ \E t \in Threads : EtlMetrics(t)

GateSpec == Init /\ [][GateNext]_vars

\* One pipeline from start() to stop(), a few cycles long, with the jobs
\* of the schedule running and with cycles that raise, before the first
\* stage or after the predictions.
MonitorNext ==
    \/ \E db_ok \in BOOLEAN : EtlStartOnce(db_ok)
    \/ EtlStopSignal
    \/ \E db_healthy \in BOOLEAN : EtlStopFinish(db_healthy)
    \/ \E t \in Threads : EtlLoopTest(t)
    \/ \E t \in Threads :
          /\ etl_pc[t] = "cycle"
          /\ etl_cycles < GateCycles
          /\ \E w \in WindowsRun : EtlExtract(t, w)
    \/ \E t \in Threads : EtlQuality(t)
    \/ \E t \in Threads : EtlTransform(t, TRUE)
    \/ \E t \in Threads : EtlAggregate(t, TRUE)
    \/ \E t \in Threads, k \in DimKeys : EtlPredict(t, k, TRUE)
    \/ \E t \in Threads : EtlLoad(t)
    \/ \E t \in Threads : EtlLoadView(t, TRUE)
    \/ \E t \in Threads : EtlExport(t)
    \/ \E t \in Threads : EtlMetrics(t)
    \/ \E t \in Threads : etl_pc[t] \in {"quality", "load"} /\ EtlCycleRaises(t)
    \/ \E t \in Threads : MonRegister(t)
    \/ \E t \in Threads, job \in Jobs, ok \in BOOLEAN : MonLoop(t, job, ok)

MonitorSpec == Init /\ [][MonitorNext]_vars

\* The cycles of a pipeline in which steps fail: the transform, the
\* aggregation, the predictions and the load of single views, each caught
\* by the step itself, and exceptions that reach run_etl_cycle.
FaultNext ==
    \/ EtlStartOnce(TRUE)
    \/ \E t \in Threads : EtlLoopTest(t)
    \/ \E t \in Threads :
          /\ etl_pc[t] = "cycle"
          /\ etl_cycles < GateCycles
          /\ \E w \in WindowsRun : EtlExtract(t, w)
    \/ \E t \in Threads : EtlQuality(t)
    \/ \E t \in Threads, ok \in BOOLEAN : EtlTransform(t, ok)
    \/ \E t \in Threads, ok \in BOOLEAN : EtlAggregate(t, ok)
    \/ \E t \in Threads, ok \in BOOLEAN : EtlPredict(t, 1, ok)
    \/ \E t \in Threads : EtlLoad(t)
    \/ \E t \in Threads, ok \in BOOLEAN : EtlLoadView(t, ok)
    \/ \E t \in Threads : EtlExport(t)
    \/ \E t \in Threads : EtlMetrics(t)
    \/ \E t \in Threads : EtlCycleRaises(t)

FaultSpec == Init /\ [][FaultNext]_vars

\* A service the host has not touched.
IngestionUntouched == starts = 0 /\ main_pc = "idle"
EtlUntouched == etl_starts = 0 /\ etl_main_pc = "idle" /\ health_report = NoReport

\* The loops of the service a host runs in the mode "ingestion" or in the
\* mode "etl" (start_system of run_integrated_system.py), with failing
\* batch writes, failing steps and cycles, and failing jobs.
LoopsNext ==
    \/ /\ EtlUntouched
       /\ Next
    \/ /\ IngestionUntouched
       /\ \/ EtlStartOnce(TRUE)
          \/ EtlStopSignal
          \/ EtlStopFinish(TRUE)
          \/ \E t \in Threads : EtlLoopTest(t)
          \/ \E t \in Threads :
                /\ etl_pc[t] = "cycle"
                /\ etl_cycles < GateCycles
                /\ \E w \in WindowsRun : EtlExtract(t, w)
          \/ \E t \in Threads : EtlQuality(t)
          \/ \E t \in Threads, ok \in BOOLEAN : EtlTransform(t, ok)
          \/ \E t \in Threads, ok \in BOOLEAN : EtlAggregate(t, ok)
          \/ \E t \in Threads : EtlPredict(t, 1, TRUE)
          \/ \E t \in Threads : EtlLoad(t)
          \/ \E t \in Threads : EtlLoadView(t, TRUE)
          \/ \E t \in Threads : EtlExport(t)
          \/ \E t \in Threads : EtlMetrics(t)
          \/ \E t \in Threads : EtlCycleRaises(t)
          \/ \E t \in Threads : MonRegister(t)
          \/ \E t \in Threads, job \in MaintenanceJobs, ok \in BOOLEAN :
                MonLoop(t, job, ok)

LoopsSpec == Init /\ [][LoopsNext]_vars

\* The cycles of a pipeline that is left running for longer.
HistoryNext ==
    \/ EtlStartOnce(TRUE)
    \/ \E t \in Threads : EtlLoopTest(t)
    \/ \E t \in Threads :
          /\ etl_pc[t] = "cycle"
          /\ etl_cycles < HistoryCycles
          /\ \E w \in WindowsRun : EtlExtract(t, w)
    \/ \E t \in Threads : EtlQuality(t)
    \/ \E t \in Threads : EtlTransform(t, TRUE)
    \/ \E t \in Threads : EtlAggregate(t, TRUE)
    \/ \E t \in Threads : EtlPredict(t, 1, TRUE)
    \/ \E t \in Threads : EtlLoad(t)
    \/ \E t \in Threads : EtlLoadView(t, TRUE)
    \/ \E t \in Threads : EtlExport(t)
    \/ \E t \in Threads : EtlMetrics(t)

HistorySpec == Init /\ [][HistoryNext]_vars

\* start() may be called again, also without a stop() in between.
EtlRestartNext ==
    \/ \E db_ok \in BOOLEAN : EtlStart(db_ok)
    \/ \E t \in Threads :
          /\ etl_pc[t] = "cycle"
          /\ etl_cycles < GateCycles
          /\ \E w \in WindowsRun : EtlExtract(t, w)
    \/ EtlRun

EtlRestartSpec == Init /\ [][EtlRestartNext]_vars

\* The host that starts and stops both services (run_integrated_system.py),
\* with no messages arriving and nothing to extract.
LifecycleNext ==
    \/ \E db_ok \in BOOLEAN, mqtt_ok \in BOOLEAN : StartOnce(db_ok, mqtt_ok)
    \/ StopSignal
    \/ StopDisconnect
    \/ \E w \in Threads : LoopCheck(w)
    \/ \E w \in Threads : DrainCheck(w)
    \/ \E h \in Threads : HeartbeatLoop(h)
    \/ \E db_ok \in BOOLEAN : EtlStartOnce(db_ok)
    \/ EtlStopSignal
    \/ \E db_healthy \in BOOLEAN : EtlStopFinish(db_healthy)
    \/ \E t \in Threads : EtlLoopTest(t)
    \/ \E t \in Threads : etl_cycles < MaxCycles /\ EtlExtract(t, NoWindow)
    \/ \E t \in Threads : MonRegister(t)
    \/ \E t \in Threads : MonLoop(t, "none", TRUE)

LifecycleSpec == Init /\ [][LifecycleNext]_vars

\* ------------------------------------------------------- stop() in time
\* The loops and stop() of one service with the durations of the source.
\* The work of an iteration and every statement but time.sleep and join
\* take no time, which is the most favourable case for stop().

\* start() of service svc: is_running = True and the two threads.
TimedStart(svc) ==
    /\ tm_service = "none"
    /\ tm_service' = svc
    /\ tm_flag' = TRUE
    /\ tm_loop' = [l \in Loops |-> IF l \in LoopsOf(svc) THEN "test" ELSE "off"]
    /\ UNCHANGED << tm_sleep, tm_stop, tm_join >>
    /\ UNCHANGED nonTimingVars

\* while self.is_running: the iteration, then time.sleep(d); or the exit.
TimedLoopTest(l) ==
    /\ tm_loop[l] = "test"
    /\ IF tm_flag
       THEN /\ tm_loop' = [tm_loop EXCEPT ![l] = "sleep"]
            /\ \E d \in SleepSeconds(l) : tm_sleep' = [tm_sleep EXCEPT ![l] = d]
       ELSE /\ tm_loop' = [tm_loop EXCEPT ![l] = "exited"]
            /\ UNCHANGED tm_sleep
    /\ UNCHANGED << tm_service, tm_flag, tm_stop, tm_join >>
    /\ UNCHANGED nonTimingVars

\* time.sleep returns.
TimedWake(l) ==
    /\ tm_loop[l] = "sleep"
    /\ tm_sleep[l] = 0
    /\ tm_loop' = [tm_loop EXCEPT ![l] = "test"]
    /\ UNCHANGED << tm_service, tm_flag, tm_sleep, tm_stop, tm_join >>
    /\ UNCHANGED nonTimingVars

\* stop(): self.is_running = False, then the first join begins.
TimedStop ==
    /\ tm_service # "none"
    /\ tm_stop = "none"
    /\ tm_flag' = FALSE
    /\ tm_stop' = "join1"
    /\ tm_join' = JoinTimeout(tm_service)
    /\ UNCHANGED << tm_service, tm_loop, tm_sleep >>
    /\ UNCHANGED nonTimingVars

\* The thread the caller is joining.
Joined == IF tm_stop = "join1" THEN FirstJoined(tm_service)
          ELSE SecondJoined(tm_service)

\* join(timeout) returns: the thread has ended or the timeout has elapsed.
JoinReturns == tm_loop[Joined] = "exited" \/ tm_join = 0

TimedJoin ==
    /\ tm_stop \in {"join1", "join2"}
    /\ JoinReturns
    /\ IF tm_stop = "join1"
       THEN /\ tm_stop' = "join2"
            /\ tm_join' = JoinTimeout(tm_service)
       ELSE /\ tm_stop' = "returned"
            /\ tm_join' = 0
    /\ UNCHANGED << tm_service, tm_flag, tm_loop, tm_sleep >>
    /\ UNCHANGED nonTimingVars

\* TickSeconds pass: no thread can take a step without time passing.
Tick ==
    /\ tm_service # "none"
    /\ \A l \in Loops : tm_loop[l] # "test"
    /\ \A l \in Loops : tm_loop[l] = "sleep" => tm_sleep[l] > 0
    /\ tm_stop \in {"join1", "join2"} => ~JoinReturns
    /\ \E l \in Loops : tm_loop[l] = "sleep"
    /\ tm_sleep' = [l \in Loops |->
                      IF tm_loop[l] = "sleep" THEN tm_sleep[l] - TickSeconds
                      ELSE tm_sleep[l]]
    /\ tm_join' = IF tm_stop \in {"join1", "join2"} THEN tm_join - TickSeconds
                  ELSE tm_join
    /\ UNCHANGED << tm_service, tm_flag, tm_loop, tm_stop >>
    /\ UNCHANGED nonTimingVars

TimedNext ==
    \/ \E svc \in Services : TimedStart(svc)
    \/ \E l \in Loops : TimedLoopTest(l)
    \/ \E l \in Loops : TimedWake(l)
    \/ TimedStop
    \/ TimedJoin
    \/ Tick

TimedSpec == Init /\ [][TimedNext]_vars

\* ------------------------------------------- the transform, by its numbers
\* clean_and_transform_data(df) as it treats the column VL_TEMPERATURA:
\* null fill with the median, clipping to Q1 - 3 IQR .. Q3 + 3 IQR, the
\* status by pd.cut, and the sort by timestamp.  A cell of the input is
\* [null, v] with v a whole number of degrees.  The median of whole
\* numbers is a multiple of 1/2 and a quartile by linear interpolation of
\* such values a multiple of 1/8, so the values of the result are kept as
\* whole numbers of eighths of a degree; the floating point arithmetic of
\* the code is exact on them.
Eighths == 8

\* bins=[-np.inf, 85, 95, np.inf], labels=['NORMAL', 'WARNING', 'CRITICAL']
NormalMax == 85
WarningMax == 95
StatusEdges == << NormalMax, WarningMax >>
StatusLabels == << "NORMAL", "WARNING", "CRITICAL" >>

\* The temperatures of the frames: on and next to the edges of the
\* status bins, and far above them.
TempValues == {NormalMax, NormalMax + 1, WarningMax, WarningMax + 1, 300}
Cells == [null : {FALSE}, v : TempValues] \cup {[null |-> TRUE, v |-> 0]}

\* The columns given to the transform: up to MaxRows rows, in the order
\* of the extraction (ORDER BY dataHora_medicao DESC).
Columns == UNION { [1..n -> Cells] : n \in 0..MaxRows }

\* The k-th smallest element of a sequence of numbers.
SortedAt(xs, k) ==
    CHOOSE v \in { xs[i] : i \in DOMAIN xs } :
        /\ Cardinality({ i \in DOMAIN xs : xs[i] < v }) < k
        /\ k <= Cardinality({ i \in DOMAIN xs : xs[i] <= v })

\* Series.median(), times 2: the middle element, or the mean of the two
\* middle ones.
TwiceMedian(xs) ==
    IF Len(xs) % 2 = 1
    THEN 2 * SortedAt(xs, (Len(xs) + 1) \div 2)
    ELSE SortedAt(xs, Len(xs) \div 2) + SortedAt(xs, Len(xs) \div 2 + 1)

\* Series.quantile(num / 4), times 4: linear interpolation between the
\* two elements around position (n - 1) * num / 4 of the sorted values.
FourTimesQuantile(xs, num) ==
    LET pos4 == num * (Len(xs) - 1)
        lo == pos4 \div 4
        r == pos4 % 4
    IN  IF r = 0
        THEN 4 * SortedAt(xs, lo + 1)
        ELSE 4 * SortedAt(xs, lo + 1)
             + r * (SortedAt(xs, lo + 2) - SortedAt(xs, lo + 1))

\* The non-null values of a column, as a sequence.
NonNull(col) ==
    LET keep == SelectSeq(col, LAMBDA c : ~c.null)
    IN  [i \in DOMAIN keep |-> keep[i].v]

\* df_clean[col].fillna(df_clean[col].median()), in halves of a degree; a
\* column with no value at all stays as it is.
Filled(col) ==
    LET values == NonNull(col)
        median == IF values = << >> THEN 0 ELSE TwiceMedian(values)
    IN  [i \in DOMAIN col |->
            IF ~col[i].null THEN [null |-> FALSE, h |-> 2 * col[i].v]
            ELSE [null |-> values = << >>, h |-> median]]

\* lower_bound = Q1 - 3 * IQR and upper_bound = Q3 + 3 * IQR of a column
\* of halves, in eighths of a degree.
LowerBoundAtQuartile(hs) == FourTimesQuantile(hs, 1)
LowerBound(hs) ==
    LET q1 == FourTimesQuantile(hs, 1)
        q3 == FourTimesQuantile(hs, 3)
    IN  q1 - 3 * (q3 - q1)
UpperBound(hs) ==
    LET q1 == FourTimesQuantile(hs, 1)
        q3 == FourTimesQuantile(hs, 3)
    IN  q3 + 3 * (q3 - q1)

\* np.clip(x, lower_bound, upper_bound)
ClipUpperOnly(x, lower, upper) == IF x > upper THEN upper ELSE x
Clip(x, lower, upper) ==
    IF x < lower THEN lower ELSE IF x > upper THEN upper ELSE x

\* pd.cut with right-closed bins: an edge is below the value, or not.
EdgeBelowOrAt(edge, x) == Eighths * edge <= x
EdgeBelow(edge, x) == Eighths * edge < x

\* pd.cut(..., bins, labels): the label of the bin (edge, next edge] the
\* value falls in; every finite value is above -inf and at most inf.
TempStatus(x) ==
    StatusLabels[1 + Cardinality({ k \in DOMAIN StatusEdges :
                                     EdgeBelow(StatusEdges[k], x) })]

\* pd.cut on values in eighths of eighths of a degree.
TempStatusOfEighths(x) ==
    StatusLabels[1 + Cardinality({ k \in DOMAIN StatusEdges :
                                     Eighths * Eighths * StatusEdges[k] < x })]

\* The timestamps of the rows of an extracted frame, which come newest
\* first (ORDER BY m.dataHora_medicao DESC).
NewestFirst(col) == [i \in DOMAIN col |-> Len(col) + 1 - i]

\* clean_and_transform_data on the column: the fill, the bounds, the
\* number of outliers ((col < lower_bound) | (col > upper_bound)).sum(),
\* the clipping when there is one, the status, and
\* df_clean.sort_values('DATAHORA_MEDICAO'), which puts the rows in the
\* order of their timestamps.  A row without a value has no status
\* (pd.cut gives NaN for NaN).  The values of the result are in eighths
\* of the unit of the values given; unit is that unit, "degrees" or
\* "eighths" of a degree, and pd.cut is taken on the scale of the result.
CleanAndTransformWith(col, stamps, unit) ==
    LET filled == Filled(col)
        hs == [i \in DOMAIN col |-> filled[i].h]
        empty == \A i \in DOMAIN col : filled[i].null
        lower == IF empty THEN 0 ELSE LowerBound(hs)
        upper == IF empty THEN 0 ELSE UpperBound(hs)
        outliers_count ==
            Cardinality({ i \in DOMAIN col : 4 * hs[i] < lower \/ 4 * hs[i] > upper })
        value(i) == IF outliers_count > 0 THEN Clip(4 * hs[i], lower, upper)
                    ELSE 4 * hs[i]
        row(i) == IF filled[i].null
                  THEN [row |-> i, null |-> TRUE, v |-> 0, status |-> "none"]
                  ELSE [row |-> i, null |-> FALSE, v |-> value(i),
                        status |-> IF unit = "degrees"
                                   THEN TempStatus(value(i))
                                   ELSE TempStatusOfEighths(value(i))]
        place(k) == CHOOSE i \in DOMAIN col :
                      Cardinality({ j \in DOMAIN col : stamps[j] < stamps[i] }) = k - 1
    IN  [k \in DOMAIN col |-> row(place(k))]

\* clean_and_transform_data on the column of an extracted frame, of whole
\* degrees.
CleanAndTransform(col) ==
    CleanAndTransformWith(col, NewestFirst(col), "degrees")

\* The result of clean_and_transform_data with TEMP_STATUS dropped, as
\* a column (in eighths of a degree) with the timestamps of its rows.
AsColumn(out) == [k \in DOMAIN out |-> [null |-> out[k].null, v |-> out[k].v]]
StampsOf(out) == [k \in DOMAIN out |-> Len(out) + 1 - out[k].row]

\* clean_and_transform_data on its own result.
CleanAndTransformAgain(out) ==
    CleanAndTransformWith(AsColumn(out), StampsOf(out), "eighths")

\* VL_VIBR_X, VL_VIBR_Y, VL_VIBR_Z of a row: null, or a whole number.
NullCell == [null |-> TRUE, v |-> 0]
AxisCell(v) == [null |-> FALSE, v |-> v]
NoAxes == << NullCell, NullCell, NullCell >>
AxesRows == { NoAxes, << AxisCell(3), AxisCell(4), NullCell >> }

\* df_clean[col].fillna(0) for the numeric columns other than the three
\* filled with the median.
FilledWithZero(cell) == IF cell.null THEN AxisCell(0) ELSE cell

\* np.sqrt of a whole number that is a square.
Sqrt(n) == CHOOSE r \in 0..n : r * r = n

\* The fill of the three axes and VIBRACAO_MAGNITUDE =
\* np.sqrt(VL_VIBR_X**2 + VL_VIBR_Y**2 + VL_VIBR_Z**2).
VibrationMagnitude(axes) ==
    LET f == [a \in DOMAIN axes |-> FilledWithZero(axes[a])]
    IN  [axes |-> f,
         magnitude |-> Sqrt(f[1].v * f[1].v + f[2].v * f[2].v + f[3].v * f[3].v)]

\* clean_and_transform_data is called with a frame; its rows carry the
\* same vibration reading.
TransformCall(col, axes) ==
    /\ transform_pc = "idle"
    /\ column_in' = col
    /\ axes_in' = axes
    /\ transform_pc' = "given"
    /\ UNCHANGED << column_out, axes_out, column_again, axes_again >>
    /\ UNCHANGED nonTransformVars

\* clean_and_transform_data returns ("if df.empty: return df" for the
\* frame without rows).
TransformReturn ==
    /\ transform_pc = "given"
    /\ column_out' = CleanAndTransform(column_in)
    /\ axes_out' = IF column_in = << >> THEN << >>
                   ELSE VibrationMagnitude(axes_in)
    /\ transform_pc' = "done"
    /\ UNCHANGED << column_in, axes_in, column_again, axes_again >>
    /\ UNCHANGED nonTransformVars

\* clean_and_transform_data is called with its own result, the derived
\* columns VIBRACAO_MAGNITUDE and TEMP_STATUS dropped, and returns.
TransformAgain ==
    /\ transform_pc = "done"
    /\ column_again' = CleanAndTransformAgain(column_out)
    /\ axes_again' = IF column_out = << >> THEN << >>
                     ELSE VibrationMagnitude(axes_out.axes)
    /\ transform_pc' = "again"
    /\ UNCHANGED << column_in, axes_in, column_out, axes_out >>
    /\ UNCHANGED nonTransformVars

TransformNext ==
    \/ /\ transform_pc = "idle"
       /\ \E col \in Columns : TransformCall(col, NoAxes)
    \/ TransformReturn

TransformSpec == Init /\ [][TransformNext]_vars

\* clean_and_transform_data run on a frame and then on its own result.
AgainNext ==
    \/ /\ transform_pc = "idle"
       /\ \E col \in Columns, axes \in AxesRows : TransformCall(col, axes)
    \/ TransformReturn
    \/ TransformAgain

AgainSpec == Init /\ [][AgainNext]_vars

\* ------------------------------------------ the aggregation, by its keys
\* aggregate_data_for_reporting(df) as it groups the rows: by ID_MAQUINA,
\* by the hour of DATAHORA_MEDICAO, and by LOCALIZACAO and TIPO_MAQUINA.
\* A row of the frame is a measurement joined with its equipment
\* (INNER JOIN T_EQUIPAMENTO), so the location and the type of a row are
\* those of its machine.  Timestamps are whole numbers of half hours.
StampsPerHour == 2
Stamps == 0..StampsPerHour
EquipmentKinds ==
    { [localizacao |-> "hall_1", tipo_maquina |-> "pump"],
      [localizacao |-> "hall_1", tipo_maquina |-> "motor"],
      [localizacao |-> "hall_2", tipo_maquina |-> "pump"] }
Measurements == [id_maquina : DimKeys, stamp : Stamps]
MeasurementRows == UNION { [1..n -> Measurements] : n \in 0..MaxGroupRows }

\* The frame of the measurements m joined with the equipment table e.
JoinedFrame(m, e) ==
    [i \in DOMAIN m |->
        [id_maquina |-> m[i].id_maquina,
         stamp |-> m[i].stamp,
         localizacao |-> e[m[i].id_maquina].localizacao,
         tipo_maquina |-> e[m[i].id_maquina].tipo_maquina]]

\* pd.to_datetime(df['DATAHORA_MEDICAO']).dt.floor('H')
FloorHour(stamp) == stamp - (stamp % StampsPerHour)

\* The grouping key of a row, per view.
KeyOf(view, row) ==
    CASE view = "equipment_summary" -> << row.id_maquina >>
      [] view = "hourly_trends" -> << FloorHour(row.stamp) >>
      [] view = "location_type_summary" ->
             << row.localizacao, row.tipo_maquina >>

\* df.groupby(keys).agg(...).reset_index(): the rows are taken one after
\* the other, a row with a key seen before is counted with its group and
\* a row with a new key opens a group; one row of the result per group.
RECURSIVE GroupByRuns(_)
GroupByRuns(keys) ==
    IF keys = << >> THEN << >>
    ELSE LET rest == GroupByRuns(SubSeq(keys, 1, Len(keys) - 1))
             key == keys[Len(keys)]
         IN  IF rest # << >> /\ rest[Len(rest)].key = key
             THEN [rest EXCEPT ![Len(rest)].count = @ + 1]
             ELSE Append(rest, [key |-> key, count |-> 1])

RECURSIVE GroupBy(_)
GroupBy(keys) ==
    IF keys = << >> THEN << >>
    ELSE LET rest == GroupBy(SubSeq(keys, 1, Len(keys) - 1))
             key == keys[Len(keys)]
         IN  IF \E j \in DOMAIN rest : rest[j].key = key
             THEN [j \in DOMAIN rest |->
                     IF rest[j].key = key
                     THEN [rest[j] EXCEPT !.count = @ + 1]
                     ELSE rest[j]]
             ELSE Append(rest, [key |-> key, count |-> 1])

\* aggregations = {} and "if df.empty: return aggregations"
NoAggregations == [view \in {} |-> << >>]

\* aggregate_data_for_reporting: the three views of a frame with rows
\* (the frame has the columns of all three groupings), none for an
\* empty frame.
AggregateDataForReporting(df) ==
    IF df = << >> THEN NoAggregations
    ELSE [view \in ViewNames |->
            GroupBy([i \in DOMAIN df |-> KeyOf(view, df[i])])]

\* aggregate_data_for_reporting is called with a frame.
AggregateCall(df) ==
    /\ agg_pc = "idle"
    /\ agg_in' = df
    /\ agg_pc' = "given"
    /\ UNCHANGED agg_out
    /\ UNCHANGED nonAggVars

\* aggregate_data_for_reporting returns.
AggregateReturn ==
    /\ agg_pc = "given"
    /\ agg_out' = AggregateDataForReporting(agg_in)
    /\ agg_pc' = "done"
    /\ UNCHANGED agg_in
    /\ UNCHANGED nonAggVars

AggregateNext ==
    \/ /\ agg_pc = "idle"
       /\ \E m \in MeasurementRows, e \in [DimKeys -> EquipmentKinds] :
            AggregateCall(JoinedFrame(m, e))
    \/ AggregateReturn

AggregateSpec == Init /\ [][AggregateNext]_vars

\* ------------------------------------------------------ orchestrator
\* SmartMaintenanceOrchestrator (run_integrated_system.py): one call of
\* start_system(mode) and one of stop_system, and the service threads
\* run_ingestion / run_etl that start_data_ingestion / start_etl_pipeline
\* launch.  The component's start() is taken by its result, its stop() by
\* the call.

\* The components start_system(mode) starts.
Requested(mode) ==
    CASE mode = "all" -> Components
      [] mode = "ingestion" -> {"data_ingestion"}
      [] mode = "etl" -> {"etl_pipeline"}
      [] OTHER -> {}

\* start_system, up to "success = True"; deps_ok: what check_dependencies()
\* returns.
StartSystem(mode, deps_ok) ==
    /\ orch_pc = "init"
    /\ orch_mode' = mode
    /\ IF deps_ok
       THEN /\ orch_is_running' = TRUE
            /\ orch_success' = TRUE
            /\ orch_pc' = "data_ingestion"
            /\ UNCHANGED system_started
       ELSE /\ system_started' = "false"
            /\ orch_pc' = "returned"
            /\ UNCHANGED << orch_is_running, orch_success >>
    /\ UNCHANGED << orch_component, svc_pc, svc_started, stop_calls >>
    /\ UNCHANGED nonOrchVars

\* What start_data_ingestion / start_etl_pipeline returns: True once the
\* thread is launched, False from its except (the constructor raised).
LaunchResult(constructed) == constructed

\* Where start_system goes after the component c.
AfterComponent(c) == IF c = "data_ingestion" THEN "etl_pipeline" ELSE "others"

\* "if mode in [...]: success &= self.start_data_ingestion()", and the same
\* for start_etl_pipeline: the component is constructed, its service thread
\* is created and started, the caller sleeps startup_delay and returns.
\* constructed: whether the constructor returned.
StartComponent(c, constructed) ==
    /\ orch_pc = c
    /\ orch_pc' = AfterComponent(c)
    /\ IF c \in Requested(orch_mode)
       THEN /\ orch_success' =
                  (orch_success /\ LaunchResult(constructed))
            /\ IF constructed
               THEN /\ orch_component' = [orch_component EXCEPT ![c] = "created"]
                    /\ svc_pc' = [svc_pc EXCEPT ![c] = "start"]
               ELSE UNCHANGED << orch_component, svc_pc >>
       ELSE UNCHANGED << orch_success, orch_component, svc_pc >>
    /\ UNCHANGED << orch_is_running, orch_mode, svc_started, stop_calls,
                    system_started >>
    /\ UNCHANGED nonOrchVars

\* The rest of start_system: start_ml_pipeline and start_dashboard in mode
\* "all" (others_ok: whether both returned True), then "if success:".
StartSystemReturn(others_ok) ==
    /\ orch_pc = "others"
    /\ LET success == IF orch_mode = "all"
                      THEN orch_success /\ others_ok
                      ELSE orch_success
       IN /\ orch_success' = success
          /\ system_started' = IF success THEN "true" ELSE "false"
    /\ orch_pc' = "returned"
    /\ UNCHANGED << orch_is_running, orch_mode, orch_component, svc_pc,
                    svc_started, stop_calls >>
    /\ UNCHANGED nonOrchVars

\* run_ingestion / run_etl: "if self.<component>.start():"; ok: what
\* start() returns.  On False the thread logs the failure and ends.
ServiceStart(c, ok) ==
    /\ svc_pc[c] = "start"
    /\ svc_started' = [svc_started EXCEPT ![c] = IF ok THEN "ok" ELSE "failed"]
    /\ svc_pc' = [svc_pc EXCEPT ![c] = IF ok THEN "wait" ELSE "done"]
    /\ UNCHANGED << orch_is_running, orch_pc, orch_mode, orch_success,
                    orch_component, stop_calls, system_started >>
    /\ UNCHANGED nonOrchVars

\* run_ingestion / run_etl: "while self.is_running: time.sleep(1)" is left.
ServiceWait(c) ==
    /\ svc_pc[c] = "wait"
    /\ ~orch_is_running
    /\ svc_pc' = [svc_pc EXCEPT ![c] = "stop"]
    /\ UNCHANGED << orch_is_running, orch_pc, orch_mode, orch_success,
                    orch_component, svc_started, stop_calls, system_started >>
    /\ UNCHANGED nonOrchVars

\* run_ingestion / run_etl: self.<component>.stop()
ServiceStop(c) ==
    /\ svc_pc[c] = "stop"
    /\ stop_calls' = [stop_calls EXCEPT ![c] = @ + 1]
    /\ svc_pc' = [svc_pc EXCEPT ![c] = "done"]
    /\ UNCHANGED << orch_is_running, orch_pc, orch_mode, orch_success,
                    orch_component, svc_started, system_started >>
    /\ UNCHANGED nonOrchVars

\* stop_system: self.is_running = False
StopSystem ==
    /\ orch_pc = "returned"
    /\ orch_is_running' = FALSE
    /\ orch_pc' = "stop_data_ingestion"
    /\ UNCHANGED << orch_mode, orch_success, orch_component, svc_pc,
                    svc_started, stop_calls, system_started >>
    /\ UNCHANGED nonOrchVars

\* The position of stop_system at the component c, and after it.
StopAt(c) == IF c = "data_ingestion" THEN "stop_data_ingestion" ELSE "stop_etl_pipeline"
AfterStop(c) == IF c = "data_ingestion" THEN "stop_etl_pipeline" ELSE "join"

\* stop_system: "if self.data_ingestion: self.data_ingestion.stop()", and
\* the same for self.etl_pipeline.
StopComponent(c) ==
    /\ orch_pc = StopAt(c)
    /\ orch_pc' = AfterStop(c)
    /\ stop_calls' = IF orch_component[c] = "created"
                     THEN [stop_calls EXCEPT ![c] = @ + 1]
                     ELSE stop_calls
    /\ UNCHANGED << orch_is_running, orch_mode, orch_success, orch_component,
                    svc_pc, svc_started, system_started >>
    /\ UNCHANGED nonOrchVars

\* stop_system, the rest: the dashboard process, and thread.join(timeout=
\* shutdown_timeout) for each service thread, which returns when the thread
\* has ended or the timeout has elapsed.
StopSystemJoin ==
    /\ orch_pc = "join"
    /\ orch_pc' = "stopped"
    /\ UNCHANGED << orch_is_running, orch_mode, orch_success, orch_component,
                    svc_pc, svc_started, stop_calls, system_started >>
    /\ UNCHANGED nonOrchVars

OrchNext ==
    \/ \E mode \in Modes, deps_ok \in BOOLEAN : StartSystem(mode, deps_ok)
    \/ \E c \in Components, constructed \in BOOLEAN : StartComponent(c, constructed)
    \/ \E others_ok \in BOOLEAN : StartSystemReturn(others_ok)
    \/ \E c \in Components, ok \in BOOLEAN : ServiceStart(c, ok)
    \/ \E c \in Components : ServiceWait(c)
    \/ \E c \in Components : ServiceStop(c)
    \/ StopSystem
    \/ \E c \in Components : StopComponent(c)
    \/ StopSystemJoin

OrchSpec == Init /\ [][OrchNext]_vars

\* ------------------------------------------------------------------ claims
\* Number of places (queue, batches, producers' hands) that hold reading i.
InQueue(i) == { k \in 1..Len(data_queue) : data_queue[k].id = i }
InBatch(w, i) == { k \in 1..Len(batch[w]) : batch[w][k].id = i }
InHand(i) == { p \in Threads : pending[p].id = i }
RECURSIVE SumOver(_, _)
SumOver(S, i) ==
    IF S = {} THEN 0
    ELSE LET w == CHOOSE x \in S : TRUE
         IN Cardinality(InBatch(w, i)) + SumOver(S \ {w}, i)
Occurrences(i) ==
    Cardinality(InQueue(i)) + Cardinality(InHand(i)) + SumOver(Threads, i)

\* C1: in every reachable state the ingestion queue holds at most
\* buffer_size readings.
C1_QueueWithinCapacity == Len(data_queue) <= BufferSize

\* The queue is at capacity and a further reading has been turned away.
C1_Witness == Len(data_queue) = BufferSize /\ decode_log = "full"

\* C2: when a valid reading arrives while the queue holds buffer_size
\* readings, the reading is dropped, the queue is unchanged and
\* records_failed increases by exactly 1.
C2_OverflowCounted ==
    [][ \A p \in Threads, m \in Payloads :
          (ProcessSensorData(p, m) /\ Decode(m) = "reading" /\ QueueFull(data_queue))
          => /\ data_queue' = data_queue
             /\ pending' = pending
             /\ records_failed' = records_failed + 1 ]_vars

\* C3: the enqueue step never waits on the queue: a producer that has
\* passed the fullness test can always insert at once.
C3_EnqueueNeverWaits ==
    \A p \in Threads : pc_p[p] = "put" => QueueCanPut(data_queue)

\* C4: no reading is handed to the store more than once: every reading is
\* in at most one place, gets at most one persistence attempt, and once
\* attempted it is neither in the queue nor on its way into it.
C4_AtMostOnce ==
    \A i \in Ids :
        /\ attempts[i] <= 1
        /\ Occurrences(i) <= 1
        /\ attempts[i] >= 1 => (InQueue(i) = {} /\ InHand(i) = {})

\* One reading was stored, another failed, and the queue is empty again.
C4_Witness ==
    /\ failed_inserts >= 1
    /\ stored # {}
    /\ data_queue = << >>
    /\ \E i \in Ids : attempts[i] = 1 /\ i \notin stored

\* C5: no accepted reading is lost: once stop() has returned and the batch
\* writer loop has ended, no reading is left in the queue without a
\* persistence attempt.
C5_NoReadingLeftBehind ==
    ( /\ processing_thread # 0
      /\ main_pc = "idle"
      /\ ~is_running
      /\ \A w \in Threads : pc_w[w] \in {"off", "done"} )
    => data_queue = << >>

\* C6: a payload that lacks a device identifier, a timestamp or a sensor
\* map is reported as incomplete and leaves the queue, and the producer's
\* hand, as they were.
C6_MalformedLeavesQueue ==
    [][ \A p \in Threads, m \in Payloads :
          (ProcessSensorData(p, m) /\ m.json /\ LacksField(m))
          => /\ decode_log' = "incomplete"
             /\ data_queue' = data_queue
             /\ pending' = pending
             /\ pc_p' = pc_p
             /\ next_id' = next_id ]_vars

\* An incomplete payload was reported while a reading was in the queue.
C6_Witness == decode_log = "incomplete" /\ Len(data_queue) = 1

\* C7: a payload whose sensor map is present but empty is never enqueued.
C7_EmptySensorMapNeverQueued ==
    \A k \in 1..Len(data_queue) : data_queue[k].sensors # "empty"

\* C8: a batch never holds more than batch_insert_size readings; the
\* collecting loop ends with fewer only on an empty queue; and each get
\* moves exactly the head of the queue to the end of the batch.
C8_DrainBounded ==
    [][ \A w \in Threads :
          /\ Len(batch'[w]) <= BatchSize
          /\ (pc_w[w] \in {"drain", "get"} /\ pc_w'[w] \in {"call", "loop"})
             => (Len(batch'[w]) = BatchSize \/ data_queue' = << >>)
          /\ (pc_w[w] = "get" /\ pc_w'[w] = "drain")
             => /\ data_queue = << batch'[w][Len(batch'[w])] >> \o data_queue'
                /\ batch'[w] = batch[w] \o << Head(data_queue) >> ]_vars

\* A full batch was taken while a further reading stays in the queue.
C8_Witness ==
    \E w \in Threads :
        /\ pc_w[w] = "call"
        /\ Len(batch[w]) = BatchSize
        /\ data_queue # << >>

\* C9: when persisting a reading fails, the transaction is rolled back,
\* failed_inserts increases by exactly 1, total_records is unchanged and
\* the reading is not put back in the queue.
C9_FailureCounted ==
    [][ \A w \in Threads :
          InsertExcept(w)
          => /\ uncommitted' = {}
             /\ failed_inserts' = failed_inserts + 1
             /\ total_records' = total_records
             /\ data_queue' = data_queue ]_vars

\* C10: with the store available (every insert attempted so far was
\* committed) and no insert between its commit and its counter update,
\* total_records equals the number of readings written, each batch of N
\* having added exactly N, and failed_inserts is 0; the heartbeat loop runs
\* beside the batch writer.
C10_BatchCountsExact ==
    ( /\ \A i \in Ids : attempts[i] >= 1 => i \in stored
      /\ \A w \in Threads : pc_w[w] \notin {"commit", "count", "except"} )
    => (total_records = Cardinality(stored) /\ failed_inserts = 0)

\* C11: creating a dimension row is an idempotent upsert: whatever the
\* interleaving of the writers, a key has at most one row, and no reading
\* fails because another writer created its key first.
C11_DimensionUpsert ==
    /\ \A k \in DimKeys : dim_rows[k] <= 1
    /\ \A c \in Sessions : dim_pc[c] # "except"

\* C12: a reading is counted as failed only after max_retries persistence
\* attempts, and never gets more attempts than that.
C12_RetriedBeforeFailed ==
    [][ \A w \in Threads :
          /\ (InsertExcept(w) /\ failed_inserts' = failed_inserts + 1)
             => attempts[Current(w).id] >= MaxRetries
          /\ \A i \in Ids : attempts'[i] <= MaxRetries ]_vars

\* C18: when stop() closes the store connection, no persistence
\* transaction is open: every write that was begun has been committed or
\* rolled back by the batch writer.
C18_CloseAfterTransactions ==
    [][ StopDisconnect => uncommitted = {} ]_vars

\* Some quality check reports more than a fifth of the window's records.
OverFifth(w) == \E a \in {w.nulls, w.temp, w.dups, w.future} : 5 * a > w.n

\* C13: a non-empty window is rejected by the quality gate exactly when
\* some quality check reports strictly more than 20% of the window's
\* records; in every other case the cycle goes on to the transform.
C13_GateRejectsOverFifth ==
    [][ \A t \in Threads :
          EtlQuality(t)
          => /\ etl_len[t] >= 1
             /\ etl_pc'[t] = "loop" <=> OverFifth(etl_win[t])
             /\ etl_pc'[t] = "transform" <=> ~OverFifth(etl_win[t]) ]_vars

\* One window was rejected and a later one has passed the gate.
C13_Witness ==
    /\ errors_count >= 1
    /\ \E t \in Threads : etl_pc[t] = "transform" /\ etl_len[t] = MaxWindow

\* C14: a rejected cycle adds exactly 1 to errors_count, leaves the
\* pipeline RUNNING, runs no load or export, leaves records_processed and
\* the last-run time as they were, and is over.
C14_RejectionFrame ==
    [][ \A t \in Threads :
          (EtlQuality(t) /\ OverFifth(etl_win[t]))
          => /\ errors_count' = errors_count + 1
             /\ pipeline_status = "RUNNING" /\ pipeline_status' = "RUNNING"
             /\ etl_is_running' = etl_is_running
             /\ loads' = loads /\ exports' = exports
             /\ records_processed' = records_processed
             /\ last_run_time' = last_run_time
             /\ etl_pc'[t] = "loop" /\ etl_len'[t] = 0 ]_vars

\* A cycle was rejected after an earlier one had been loaded and exported.
C14_Witness ==
    /\ errors_count >= 1
    /\ reject_streak >= 1
    /\ loads >= 1 /\ exports >= 1 /\ records_processed >= 1

\* C15: after three rejected cycles in a row a running pipeline is
\* DEGRADED, and with fewer it is not.
C15_DegradedAfterThree ==
    /\ (reject_streak >= RejectLimit /\ etl_is_running)
       => pipeline_status = "DEGRADED"
    /\ reject_streak < RejectLimit => pipeline_status # "DEGRADED"

\* C16: start() on a pipeline that is running changes nothing: no further
\* loop is launched and no state is reset.
C16_StartIdempotent ==
    [][ \A db_ok \in BOOLEAN :
          (EtlStart(db_ok) /\ etl_is_running)
          => /\ etl_pc' = etl_pc
             /\ mon_pc' = mon_pc
             /\ etl_is_running' = etl_is_running
             /\ pipeline_status' = pipeline_status
             /\ UNCHANGED << metricsVars, quality_log_len, schedule_jobs >> ]_vars

PipelineStates == {"STOPPED", "RUNNING", "DEGRADED"}

\* C19: the pipeline status is one of STOPPED, RUNNING, DEGRADED; it
\* changes only from STOPPED to RUNNING by start(), between RUNNING and
\* DEGRADED, and from RUNNING or DEGRADED to STOPPED by stop(); stop()
\* always ends in STOPPED.
C19_StatusTransitions ==
    [][ /\ pipeline_status \in PipelineStates
        /\ pipeline_status' \in PipelineStates
        /\ pipeline_status' # pipeline_status
           => \/ /\ pipeline_status = "STOPPED" /\ pipeline_status' = "RUNNING"
                 /\ \E db_ok \in BOOLEAN : EtlStart(db_ok)
              \/ pipeline_status = "RUNNING" /\ pipeline_status' = "DEGRADED"
              \/ pipeline_status = "DEGRADED" /\ pipeline_status' = "RUNNING"
              \/ /\ pipeline_status \in {"RUNNING", "DEGRADED"}
                 /\ pipeline_status' = "STOPPED"
                 /\ EtlStopSignal
        /\ EtlStopSignal => pipeline_status' = "STOPPED"
        /\ (\E db_healthy \in BOOLEAN : EtlStopFinish(db_healthy))
           => pipeline_status' = "STOPPED" ]_vars

\* A pipeline that ran cycles, one of them rejected, and was stopped.
C19_Witness ==
    /\ pipeline_status = "STOPPED"
    /\ etl_start_result = "ok"
    /\ etl_main_pc = "idle"
    /\ errors_count >= 1
    /\ \E t \in Threads : etl_pc[t] = "done"

C17_LoopsExitWithinJoin ==
    tm_stop = "returned"
    => \A l \in LoopsOf(tm_service) : tm_loop[l] = "exited"

C24_ReportReadsOnly ==
    [][ /\ \A t \in Threads, ok \in BOOLEAN :
             MonLoop(t, "save_health_report", ok)
             => /\ UNCHANGED << metricsVars, records_failed, etl_is_running,
                                pipeline_status, etlCycleVars, schedule_jobs >>
                /\ etl_is_running
                   => /\ health_report'.database_healthy = ok
                      /\ health_report'.pipeline_status = pipeline_status
        /\ \A ok \in BOOLEAN :
             EtlStopFinish(ok)
             => /\ UNCHANGED << metricsVars, records_failed, etl_is_running,
                                pipeline_status, etlCycleVars, schedule_jobs >>
                /\ health_report'.database_healthy = ok
                /\ health_report'.pipeline_status = pipeline_status ]_vars

\* A report of a running pipeline whose probe of the store failed, after
\* a cycle that counted records and one that counted an error.
C24_Witness ==
    /\ health_report = [pipeline_status |-> "RUNNING", database_healthy |-> FALSE]
    /\ errors_count >= 1
    /\ records_processed >= 1

\* C25: the history of quality-check results is bounded: the number of
\* entries kept in self.data_quality_checks never exceeds a fixed bound,
\* here the number of entries the health report looks at.
C25_HistoryBounded == quality_log_len <= ReportedChecks

\* C26: the null-ratio check passes exactly when the null cells are fewer
\* than 10% of the cells of the window (records times columns), and the
\* number it reports as affected is a number of records, so at most the
\* number of records of the window.
C26_NullRatioOverCells ==
    [][ \A t \in Threads :
          EtlQuality(t)
          => LET w == etl_win[t]
                 c == QualityChecks(w)[1]
             IN  /\ c.check_name = "NULL_VALUES"
                 /\ c.passed <=> 10 * w.nulls < w.n * WindowColumns
                 /\ c.affected_records <= w.n ]_vars

\* C27: a window in which one channel is null in exactly 15% of the
\* records, with nothing else wrong, fails the null-ratio check and is
\* not rejected: no error is counted and the cycle goes on to the
\* transform, from where it reaches the aggregation and the export.
C27_FifteenPercentAccepted ==
    [][ \A t \in Threads :
          (EtlQuality(t) /\ etl_win[t] \in FifteenPercentWindows)
          => /\ ~QualityChecks(etl_win[t])[1].passed
             /\ CriticalFailures(etl_win[t]) = {}
             /\ errors_count' = errors_count
             /\ etl_pc'[t] = "transform"
             /\ etl_len'[t] = etl_win[t].n ]_vars

\* The cycle of such a window has been through the export.
C27_Witness ==
    \E t \in Threads :
        /\ etl_pc[t] = "metrics"
        /\ etl_len[t] > MaxWindow
        /\ exports >= 1
        /\ errors_count = 0

\* C23: after any sequence of cycles, also cycles in which the load of
\* one view fails, the aggregation tables are all of one and the same
\* extraction window.  Stated for the moments at which no load is going
\* on.
C23_ViewsOfOneWindow ==
    (\A t \in Threads : etl_pc[t] # "load_view")
    => \A u \in ViewNames, v \in ViewNames : views[u] = views[v]

\* C28: the quality gate, the transform and the aggregation each leave
\* the frame they are given as it was: the same window and the same
\* columns.
C28_StagesReadOnly ==
    [][ \A t \in Threads :
          /\ (EtlQuality(t) /\ etl_pc'[t] = "transform")
             => df_raw'[t] = df_raw[t]
          /\ \A ok \in BOOLEAN :
                EtlTransform(t, ok) => df_raw'[t] = df_raw[t]
          /\ \A ok \in BOOLEAN :
                EtlAggregate(t, ok)
                => df_clean'[t] = df_clean[t] /\ df_raw'[t] = df_raw[t] ]_vars

\* C22: no failure inside an iteration ends a loop.  An exception that
\* reaches run_etl_cycle is counted and the processing loop is back at
\* its test; a step that fails on its own lets the cycle go on; a failing
\* job leaves the monitoring loop running; a failed batch write leaves
\* the batch writer in its batch or back at its test.  A loop ends only at
\* its test, and only when the running flag is false; while it is true
\* the test starts the next iteration.
C22_FailuresAbsorbed ==
    [][ /\ \A t \in Threads :
             /\ EtlCycleRaises(t)
                => errors_count' = errors_count + 1 /\ etl_pc'[t] = "loop"
             /\ EtlTransform(t, FALSE) => etl_pc'[t] = "aggregate"
             /\ EtlAggregate(t, FALSE) => etl_pc'[t] = "predict"
             /\ (EtlLoopTest(t) /\ etl_is_running) => etl_pc'[t] = "cycle"
             /\ (etl_pc[t] # "done" /\ etl_pc'[t] = "done")
                => etl_pc[t] = "loop" /\ ~etl_is_running
             /\ \A job \in MaintenanceJobs :
                   (MonLoop(t, job, FALSE) /\ etl_is_running)
                   => mon_pc'[t] = "run"
             /\ (mon_pc[t] # "done" /\ mon_pc'[t] = "done")
                => mon_pc[t] = "run" /\ ~etl_is_running
        /\ \A w \in Threads :
             /\ InsertExcept(w) => pc_w'[w] \in {"call", "loop"}
             /\ (LoopCheck(w) /\ is_running) => pc_w'[w] = "drain"
             /\ (pc_w[w] # "done" /\ pc_w'[w] = "done")
                => pc_w[w] = "loop" /\ ~is_running ]_vars

\* A running batch writer that is at a later reading after a failed
\* batch write.
C22_WriterWentOn ==
    /\ is_running
    /\ failed_inserts >= 1
    /\ \E w \in Threads : pc_w[w] = "call" /\ attempts[Current(w).id] = 0

\* A running processing loop that is in a later cycle after one that
\* raised (no check has been logged, so the error is not a rejection).
C22_CycleWentOn ==
    /\ etl_is_running
    /\ errors_count >= 1
    /\ quality_log_len = 0
    /\ \E t \in Threads : etl_pc[t] = "quality"

C22_Witness == C22_WriterWentOn \/ C22_CycleWentOn

\* The input cell of the row that is at position k of the result.
InputOf(k) == column_in[column_out[k].row]

\* The column after the null fill, in halves, as the bounds are computed
\* from it.
FilledHalves(col) == [i \in DOMAIN col |-> Filled(col)[i].h]

\* C29: the transform keeps the number of rows (and the rows) of every
\* frame, and after the clipping every value of the column lies within
\* Q1 - 3 IQR and Q3 + 3 IQR of the column, a value of the input that
\* was within them being unchanged.
C29_ClipWithinBounds ==
    transform_pc = "done"
    => /\ Len(column_out) = Len(column_in)
       /\ { column_out[k].row : k \in DOMAIN column_out } = DOMAIN column_in
       /\ (\E k \in DOMAIN column_out : ~column_out[k].null)
          => LET hs == FilledHalves(column_in)
                 lower == LowerBound(hs)
                 upper == UpperBound(hs)
             IN  \A k \in DOMAIN column_out :
                   ~column_out[k].null
                   => /\ lower <= column_out[k].v
                      /\ column_out[k].v <= upper
                      /\ ( /\ ~InputOf(k).null
                           /\ lower <= Eighths * InputOf(k).v
                           /\ Eighths * InputOf(k).v <= upper )
                         => column_out[k].v = Eighths * InputOf(k).v

\* A full frame of which one value was clipped from above, one from
\* below, and one was kept.
C29_Witness ==
    /\ transform_pc = "done"
    /\ Len(column_out) = MaxRows
    /\ \E k \in DOMAIN column_out :
         ~InputOf(k).null /\ column_out[k].v < Eighths * InputOf(k).v
    /\ \E k \in DOMAIN column_out :
         ~InputOf(k).null /\ column_out[k].v > Eighths * InputOf(k).v
    /\ \E k \in DOMAIN column_out :
         ~InputOf(k).null /\ column_out[k].v = Eighths * InputOf(k).v

\* C30: every temperature value has exactly one status, by the bins: up
\* to 85 NORMAL, above 85 and up to 95 WARNING, above 95 CRITICAL.
C30_StatusByBins ==
    transform_pc = "done"
    => \A k \in DOMAIN column_out :
         ~column_out[k].null
         => LET x == column_out[k].v
                st == column_out[k].status
            IN  /\ st \in {"NORMAL", "WARNING", "CRITICAL"}
                /\ st = "NORMAL" <=> x <= Eighths * 85
                /\ st = "WARNING" <=> (Eighths * 85 < x /\ x <= Eighths * 95)
                /\ st = "CRITICAL" <=> Eighths * 95 < x

\* A frame with a value on each edge and one next to each edge, so with
\* all three statuses.
C30_Witness ==
    /\ transform_pc = "done"
    /\ \E k \in DOMAIN column_out :
         column_out[k].v = Eighths * 85 /\ column_out[k].status = "NORMAL"
    /\ \E k \in DOMAIN column_out :
         column_out[k].v = Eighths * 86 /\ column_out[k].status = "WARNING"
    /\ \E k \in DOMAIN column_out :
         column_out[k].v = Eighths * 95 /\ column_out[k].status = "WARNING"
    /\ \E k \in DOMAIN column_out :
         column_out[k].v = Eighths * 96 /\ column_out[k].status = "CRITICAL"

\* The distinct grouping keys of a view that are present in a frame.
KeysPresent(view, df) == { KeyOf(view, df[i]) : i \in DOMAIN df }

\* C31: each of the three aggregation views (per machine, per hour, per
\* location and type) has as many rows as there are distinct grouping
\* keys in the frame, one row per key.
C31_RowPerKey ==
    agg_pc = "done"
    => \A view \in DOMAIN agg_out :
         /\ Len(agg_out[view]) = Cardinality(KeysPresent(view, agg_in))
         /\ { agg_out[view][j].key : j \in DOMAIN agg_out[view] }
              = KeysPresent(view, agg_in)

\* A frame of two machines of one location and type, with rows of a
\* machine and of an hour that are not next to each other: the three
\* views have different numbers of rows, each fewer than the frame.
C31_Witness ==
    /\ agg_pc = "done"
    /\ Len(agg_in) = MaxGroupRows
    /\ DOMAIN agg_out = ViewNames
    /\ agg_in[1].id_maquina = agg_in[MaxGroupRows].id_maquina
    /\ agg_in[1].id_maquina # agg_in[2].id_maquina
    /\ Len(agg_out["equipment_summary"]) = 2
    /\ Len(agg_out["location_type_summary"]) = 1
    /\ FloorHour(agg_in[1].stamp) # FloorHour(agg_in[2].stamp)

\* C32: the transform applied to its own result (derived columns dropped)
\* gives, for every row, the same cleaned value, the same magnitude and
\* the same status as the first run.
C32_TransformIdempotent ==
    transform_pc = "again"
    => /\ Len(column_again) = Len(column_out)
       /\ \A k \in DOMAIN column_again :
            /\ column_again[k].row = k
            /\ column_again[k].null = column_out[k].null
            /\ column_again[k].v = Eighths * column_out[k].v
            /\ column_again[k].status = column_out[k].status
       /\ axes_again = axes_out

\* A second run on a frame of which the first run filled a null, clipped
\* a value and filled and measured the vibration.
C32_Witness ==
    /\ transform_pc = "again"
    /\ \E i \in DOMAIN column_in : column_in[i].null
    /\ \E k \in DOMAIN column_out :
         /\ ~InputOf(k).null
         /\ column_out[k].v # Eighths * InputOf(k).v
         /\ column_again[k].status \in {"NORMAL", "WARNING", "CRITICAL"}
    /\ axes_in # NoAxes
    /\ axes_again.magnitude = 5

\* The position from which run_etl_cycle may come to a position.
StageBefore(pc) ==
    CASE pc = "quality" -> {"cycle"}
      [] pc = "transform" -> {"quality"}
      [] pc = "aggregate" -> {"transform"}
      [] pc = "predict" -> {"aggregate"}
      [] pc = "load" -> {"predict"}
      [] pc = "load_view" -> {"load", "load_view"}
      [] pc = "export" -> {"load", "load_view"}
      [] pc = "metrics" -> {"export"}

C34_WholeBatchAttempted ==
    \A w \in Threads :
        pc_w[w] = "loop"
        => \A k \in 1..Len(batch[w]) : attempts[batch[w][k].id] = 1

\* The threads that are inside a loop: started, and not yet returned.
ActiveLoops(pc) == { t \in Threads : pc[t] \notin {"off", "done"} }

\* C36: of each background loop (the ETL processing loop, the
\* maintenance loop, the batch writer loop) at most one instance is
\* active at any time, whatever start() and stop() calls were made.
C36_OneLoopEach ==
    /\ Cardinality(ActiveLoops(etl_pc)) <= 1
    /\ Cardinality(ActiveLoops(mon_pc)) <= 1
    /\ Cardinality(ActiveLoops(pc_w)) <= 1

\* C35: two readings that the same producer put in the queue are handed
\* to the store in the order in which they were put: when a reading is
\* handed over, no reading that its producer put after it (a later
\* reading of that producer) has been handed over before.
C35_FifoPerProducer ==
    [][\A i \in Ids, j \in Ids :
         ( /\ attempts'[i] > attempts[i]
           /\ i < j
           /\ put_by[i] # 0
           /\ put_by[j] = put_by[i] )
         => attempts[j] = 0 ]_vars

\* The readings of writer w's local batch that are not yet counted: all of
\* it while it is collected, the reading at hand and those after it while
\* the for loop runs, none once the cycle is over.
InFlight(w) ==
    CASE pc_w[w] \in {"drain", "get"} -> Len(batch[w])
      [] pc_w[w] \in {"call", "commit", "count", "except"} ->
             Len(batch[w]) - idx[w] + 1
      [] OTHER -> 0

RECURSIVE InFlightOf(_)
InFlightOf(ws) ==
    IF ws = {} THEN 0
    ELSE LET w == CHOOSE x \in ws : TRUE
         IN InFlight(w) + InFlightOf(ws \ {w})

\* C37: conservation of readings: the number of readings accepted into the
\* queue equals the number still queued, plus the number held in the batch
\* in flight, plus total_records, plus failed_inserts.
C37_Conservation ==
    Cardinality({i \in Ids : put_by[i] # 0})
        = Len(data_queue) + InFlightOf(Threads) + total_records + failed_inserts

\* C38: each of the three maintenance tasks (hourly health snapshot, daily
\* retention cleanup, periodic retraining) is registered with the scheduler
\* once: while at most one monitoring loop is alive, whatever starts and
\* stops came before, the schedule holds three jobs at most, one per task.
C38_TasksRegisteredOnce ==
    Cardinality({t \in Threads : mon_pc[t] \in {"register", "run"}}) <= 1
        => schedule_jobs <= 3

\* C39: shutting the integrated system down runs stop() at most once on
\* each component: stop_system and the component's service thread never
\* both call stop() on the ingestion service or on the ETL pipeline.
C39_StopOncePerComponent ==
    \A c \in Components : stop_calls[c] <= 1

\* C40: start_system returns True only if every component the mode asks
\* for started: once a requested component's start() has returned False,
\* start_system has not returned True.
C40_SuccessMeansStarted ==
    system_started = "true"
        => \A c \in Requested(orch_mode) : svc_started[c] # "failed"

============================================================================
